---- MODULE Spec2Model ----
(***************************************************************************)
(* A model of clean-code: the deletion planner and executor (clean.rs),    *)
(* candidate discovery (scan.rs), candidate confirmation (report.rs) and   *)
(* the interactive session (tui.rs).                                       *)
(*                                                                         *)
(* Paths are sequences of component names, the empty sequence being the    *)
(* scan root.  Absent values (Option::None) are the empty sequence and     *)
(* Some(x) is <<x>>.  u64 values live in 0..MaxU64.                        *)
(***************************************************************************)
EXTENDS Integers, Sequences, FiniteSets, TLC

\* ------------------------------------------------------------------ bounds
\* The largest u64 value of the model (u64::MAX, scaled down).
MaxU64 == 7
\* The longest target list handed to the executor.
MaxTargets == 3

\* --------------------------------------------------------------- variables
VARIABLES
    \* the options the session is run with (TuiOptions)
    options,
    \* struct App: the repository list
    sort_mode, items, cursor, pending_heads, new_repo_default_selected,
    \* struct App: the scan progress counters
    scan_total, scan_processed, scan_done, artifacts_found,
    \* struct App: the screen; the position of run's loop; whether it was left
    screen, result_lines, fpc, exited,
    \* the shared cancellation flags and the event channel
    scan_cancel, clean_cancel, chan,
    \* the deletion worker: its position, its arguments and its locals
    wpc, targets, windex, summary, last_processed,
    \* the directories on disk, the calls made to git check-ignore and to
    \* remove_dir_all, the events sent by the deletion worker
    fs, calls, sent,
    \* the scan worker: its position, its arguments and its locals
    spc, artifact_dir_names, candidates, scan_todo, scan_count, head_started,
    \* plan_delete_targets called on its own: its argument and its result
    plan_in, plan_out,
    \* dir_stats called on its own: the directories under its root, those
    \* whose task has not merged yet, and the shared DirStats
    walk_dirs, walk_todo, walk_global

listVars == <<sort_mode, items, cursor, pending_heads, new_repo_default_selected>>
statVars == <<scan_total, scan_processed, scan_done, artifacts_found>>
appVars == <<options, listVars, statVars, screen, result_lines, fpc, exited>>
workerVars == <<wpc, targets, windex, summary, last_processed>>
envVars == <<fs, calls, sent>>
scanVars == <<spc, artifact_dir_names, candidates, scan_todo, scan_count,
              head_started>>
walkVars == <<walk_dirs, walk_todo, walk_global>>
planVars == <<plan_in, plan_out, walkVars>>
vars == <<appVars, scan_cancel, clean_cancel, chan, workerVars, envVars,
          scanVars, planVars>>

\* ------------------------------------------------------------------ values
None == <<>>
Some(x) == <<x>>

Min(a, b) == IF a <= b THEN a ELSE b
Max(a, b) == IF a >= b THEN a ELSE b

\* u64::saturating_add
SaturatingAdd(a, b) == Min(a + b, MaxU64)
\* u64 addition without overflow checks: the result wraps
WrappingAdd(a, b) == (a + b) % (MaxU64 + 1)

\* The names a path component takes, in the byte order Rust compares them.
NameOrder == <<".git", "a", "b", "c", "node_modules", "target">>
Names == {NameOrder[i] : i \in 1..Len(NameOrder)}
Rank(n) == CHOOSE i \in 1..Len(NameOrder) : NameOrder[i] = n

\* Path::strip_prefix(base).is_ok()
IsPrefix(base, path) ==
    /\ Len(base) <= Len(path)
    /\ \A i \in 1..Len(base) : base[i] = path[i]

\* Path::cmp: component by component, a proper prefix first.  -1, 0 or 1.
PathCmp(p, q) ==
    LET n == Min(Len(p), Len(q))
        diff == {i \in 1..n : p[i] # q[i]}
    IN  IF diff = {}
        THEN (IF Len(p) < Len(q) THEN -1 ELSE IF Len(p) > Len(q) THEN 1 ELSE 0)
        ELSE LET i == CHOOSE j \in diff : \A k \in diff : j <= k
             IN  IF Rank(p[i]) < Rank(q[i]) THEN -1 ELSE 1

\* Path::file_name
FileName(path) == IF Len(path) = 0 THEN None ELSE Some(path[Len(path)])

\* ------------------------------------------------------- clean.rs: executor
DeleteTarget(root, path, bytes) ==
    [repo_root |-> root, path |-> path, planned_bytes |-> bytes]

\* Mutant: the whole path, not its last component, is compared with .git.
is_blocked_path_whole(path) == path = <<".git">>
is_blocked_path(path) == FileName(path) = Some(".git")

\* targets.iter().map(|t| t.planned_bytes).sum::<u64>()
RECURSIVE SumPlannedBytes(_)
SumPlannedBytes(ts) ==
    IF Len(ts) = 0 THEN 0
    ELSE WrappingAdd(SumPlannedBytes(SubSeq(ts, 1, Len(ts) - 1)),
                     ts[Len(ts)].planned_bytes)

\* DeleteSummary { planned_paths, planned_bytes, ..DeleteSummary::default() }
NewSummary(ts) ==
    [planned_paths |-> Len(ts), planned_bytes |-> SumPlannedBytes(ts),
     deleted_paths |-> 0, deleted_bytes |-> 0, skipped_paths |-> 0,
     errors |-> <<>>]

\* Mutant: the snapshot carries the index of the target, not index + 1.
DeleteProgressFromZero(processed, s) ==
    [processed |-> processed - 1, total |-> s.planned_paths,
     deleted_paths |-> s.deleted_paths, deleted_bytes |-> s.deleted_bytes,
     skipped_paths |-> s.skipped_paths, error_count |-> Len(s.errors)]
\* The snapshot handed to on_progress after target number `processed`.
DeleteProgress(processed, s) ==
    [processed |-> processed, total |-> s.planned_paths,
     deleted_paths |-> s.deleted_paths, deleted_bytes |-> s.deleted_bytes,
     skipped_paths |-> s.skipped_paths, error_count |-> Len(s.errors)]

\* What git check-ignore can answer for a target: a path outside the
\* repository root is an error before git is run; otherwise git decides.
IgnoreAnswers(t) ==
    IF IsPrefix(t.repo_root, t.path) THEN {"true", "false", "error"}
    ELSE {"error"}

\* What fs::remove_dir_all can answer for a path.
RemoveAnswers(path) ==
    IF path \in fs THEN {"ok", "error"} ELSE {"not_found"}

\* The file system after remove_dir_all(path) succeeded: the subtree is gone.
RemoveDirAll(path) == {q \in fs : ~IsPrefix(path, q)}

\* One step of the summary for each way the loop body can end.
Skip(s) == [s EXCEPT !.skipped_paths = @ + 1]
PushError(s, path, err) ==
    [s EXCEPT !.errors = Append(@, [path |-> path, error |-> err])]

\* is_blocked_path(&target.path): skipped, with an error
OnBlocked(s, t) == PushError(Skip(s), t.path, "refusing to delete blocked path")
\* Mutant: a not-ignored target is reported as an error.
OnNotIgnoredAsError(s, t) == PushError(Skip(s), t.path, "path is not ignored")
\* is_git_ignored answered Ok(false): skipped, no error
OnNotIgnored(s, t) == Skip(s)
\* is_git_ignored answered Err(err): skipped, with the error
OnIgnoreError(s, t) == PushError(Skip(s), t.path, "git check-ignore failed")
\* Mutant: the deleted bytes are added without saturation and wrap.
OnRemovedWrapping(s, t) ==
    [s EXCEPT !.deleted_paths = @ + 1,
              !.deleted_bytes = WrappingAdd(@, t.planned_bytes)]
\* remove_dir_all answered Ok(())
OnRemoved(s, t) ==
    [s EXCEPT !.deleted_paths = @ + 1,
              !.deleted_bytes = SaturatingAdd(@, t.planned_bytes)]
\* Mutant: a directory not found is counted nowhere.
OnNotFoundUncounted(s, t) == s
\* remove_dir_all answered Err(NotFound)
OnNotFound(s, t) == Skip(s)
\* remove_dir_all answered any other Err
OnRemoveError(s, t) == PushError(s, t.path, "remove_dir_all failed")

\* ------------------------------------------------ tui.rs: deletion worker
CleanProgress(progress, current) ==
    [app |-> "Clean", type |-> "Progress", progress |-> progress,
     current |-> current]
CleanFinished(s, canceled) ==
    [app |-> "Clean", type |-> "Finished", summary |-> s, canceled |-> canceled]

IgnoreCall(idx, ans) == [op |-> "check_ignore", index |-> idx, answer |-> ans]
RemoveCall(idx, ans) == [op |-> "remove_dir_all", index |-> idx, answer |-> ans]

\* Mutant: the executor is given a closure that never reports a cancel.
should_cancel_never == FALSE
\* `|| cancel.load(Ordering::Relaxed)`
should_cancel == clean_cancel

\* The worker is inside the loop of execute_delete_with_progress, about to
\* start the iteration of target windex + 1.
InLoop == wpc = "loop" /\ windex < Len(targets) /\ ~exited
Target == targets[windex + 1]

\* The closure given as on_progress, called with the snapshot taken after the
\* target just handled; s is the summary at that point.
on_progress(s) ==
    LET processed == windex + 1
        ev == CleanProgress(DeleteProgress(processed, s), targets[processed])
    IN  /\ summary' = s
        /\ windex' = processed
        /\ last_processed' = processed
        /\ chan' = Append(chan, ev)
        /\ sent' = Append(sent, ev)
        /\ UNCHANGED <<wpc, targets, appVars, scan_cancel, clean_cancel,
                       scanVars, planVars>>

\* `if should_cancel() { break; }`
ExecCancelled ==
    /\ InLoop
    /\ should_cancel
    /\ wpc' = "returned"
    /\ UNCHANGED <<targets, windex, summary, last_processed, envVars, chan,
                   appVars, scan_cancel, clean_cancel, scanVars, planVars>>

ExecBlocked ==
    /\ InLoop
    /\ ~should_cancel
    /\ is_blocked_path(Target.path)
    /\ on_progress(OnBlocked(summary, Target))
    /\ UNCHANGED <<fs, calls>>

\* The target reaches is_git_ignored, which answers ans.
ReachesIgnoreCheck(ans) ==
    /\ InLoop
    /\ ~should_cancel
    /\ ~is_blocked_path(Target.path)
    /\ ans \in IgnoreAnswers(Target)

ExecNotIgnored ==
    /\ ReachesIgnoreCheck("false")
    /\ calls' = Append(calls, IgnoreCall(windex + 1, "false"))
    /\ on_progress(OnNotIgnored(summary, Target))
    /\ UNCHANGED fs

ExecIgnoreError ==
    /\ ReachesIgnoreCheck("error")
    /\ calls' = Append(calls, IgnoreCall(windex + 1, "error"))
    /\ on_progress(OnIgnoreError(summary, Target))
    /\ UNCHANGED fs

ExecDryRun ==
    /\ ReachesIgnoreCheck("true")
    /\ options.dry_run
    /\ calls' = Append(calls, IgnoreCall(windex + 1, "true"))
    /\ on_progress(summary)
    /\ UNCHANGED fs

\* Mutant: the dry-run test before the removal is missing.
ReachesRemovalInDryRun(ans) ==
    /\ ReachesIgnoreCheck("true")
    /\ ans \in RemoveAnswers(Target.path)
    /\ calls' = calls \o <<IgnoreCall(windex + 1, "true"),
                           RemoveCall(windex + 1, ans)>>

\* The target reaches fs::remove_dir_all, which answers ans.
ReachesRemoval(ans) ==
    /\ ReachesIgnoreCheck("true")
    /\ ~options.dry_run
    /\ ans \in RemoveAnswers(Target.path)
    /\ calls' = calls \o <<IgnoreCall(windex + 1, "true"),
                           RemoveCall(windex + 1, ans)>>

ExecRemoved ==
    /\ ReachesRemoval("ok")
    /\ fs' = RemoveDirAll(Target.path)
    /\ on_progress(OnRemoved(summary, Target))

ExecNotFound ==
    /\ ReachesRemoval("not_found")
    /\ on_progress(OnNotFound(summary, Target))
    /\ UNCHANGED fs

ExecRemoveError ==
    /\ ReachesRemoval("error")
    /\ on_progress(OnRemoveError(summary, Target))
    /\ UNCHANGED fs

\* The for loop runs out of targets and the summary is returned.
ExecReturn ==
    /\ wpc = "loop"
    /\ windex = Len(targets)
    /\ ~exited
    /\ wpc' = "returned"
    /\ UNCHANGED <<targets, windex, summary, last_processed, envVars, chan,
                   appVars, scan_cancel, clean_cancel, scanVars, planVars>>

\* Mutant: the flag alone decides, whatever was processed.
CanceledByFlagAlone == clean_cancel
\* `cancel.load(Ordering::Relaxed) && last_processed < total`
Canceled == clean_cancel /\ last_processed < Len(targets)

\* Mutant: a cancelled worker ends without the terminal event.
WorkerFinishUnlessCancelled ==
    /\ wpc = "returned"
    /\ ~exited
    /\ wpc' = "finished"
    /\ IF clean_cancel
       THEN UNCHANGED <<chan, sent>>
       ELSE /\ chan' = Append(chan, CleanFinished(summary, Canceled))
            /\ sent' = Append(sent, CleanFinished(summary, Canceled))
    /\ UNCHANGED <<targets, windex, summary, last_processed, fs, calls,
                   appVars, scan_cancel, clean_cancel, scanVars, planVars>>
\* The worker sends the terminal event and ends.
WorkerFinish ==
    /\ wpc = "returned"
    /\ ~exited
    /\ wpc' = "finished"
    /\ chan' = Append(chan, CleanFinished(summary, Canceled))
    /\ sent' = Append(sent, CleanFinished(summary, Canceled))
    /\ UNCHANGED <<targets, windex, summary, last_processed, fs, calls,
                   appVars, scan_cancel, clean_cancel, scanVars, planVars>>

CleanWorker ==
    \/ ExecCancelled
    \/ ExecBlocked
    \/ ExecNotIgnored
    \/ ExecIgnoreError
    \/ ExecDryRun
    \/ ExecRemoved
    \/ ExecNotFound
    \/ ExecRemoveError
    \/ ExecReturn
    \/ WorkerFinish


\* ------------------------------------------------- format.rs: display paths
\* display_rel_path: the path relative to base, "." for base itself, and the
\* whole path when it does not lie under base.
display_rel_path(base, path) ==
    IF ~IsPrefix(base, path) THEN path
    ELSE IF Len(base) = Len(path) THEN <<".">>
    ELSE SubSeq(path, Len(base) + 1, Len(path))

\* ------------------------------------------------------ tui.rs: the screens
ScanRoot == <<>>

\* The text shown as the target being cleaned.
CurrentLabel(t) ==
    <<display_rel_path(ScanRoot, t.repo_root), display_rel_path(t.repo_root, t.path)>>

MainScreen == [kind |-> "Main"]
ResultScreen == [kind |-> "Result"]
ConfirmData(ts, selected_repos) ==
    [kind |-> "Confirm", targets |-> ts, selected_repos |-> selected_repos,
     planned_dirs |-> Len(ts), planned_bytes |-> SumPlannedBytes(ts)]
\* The CleaningData built by handle_key_confirm for the targets ts.
CleaningData(ts) ==
    [kind |-> "Cleaning", total |-> Len(ts), planned_bytes |-> SumPlannedBytes(ts),
     processed |-> 0, deleted_paths |-> 0, deleted_bytes |-> 0,
     skipped_paths |-> 0, error_count |-> 0,
     current |-> IF Len(ts) = 0 THEN None ELSE Some(CurrentLabel(ts[1])),
     cancel_requested |-> FALSE]

\* format_delete_summary: what the Result screen prints.
format_delete_summary(s, dry_run, canceled) ==
    <<[canceled |-> canceled, dry_run |-> dry_run,
       planned_paths |-> s.planned_paths, planned_bytes |-> s.planned_bytes,
       deleted_paths |-> s.deleted_paths, deleted_bytes |-> s.deleted_bytes,
       skipped_paths |-> s.skipped_paths,
       errors |-> [i \in 1..Len(s.errors) |->
                     [path |-> display_rel_path(ScanRoot, s.errors[i].path),
                      error |-> s.errors[i].error]]]>>

\* App::apply_clean_event, Progress: the screen after the event.
ApplyProgress(sc, ev) ==
    IF sc.kind # "Cleaning" THEN sc
    ELSE [sc EXCEPT !.processed = ev.progress.processed,
                    !.total = ev.progress.total,
                    !.deleted_paths = ev.progress.deleted_paths,
                    !.deleted_bytes = ev.progress.deleted_bytes,
                    !.skipped_paths = ev.progress.skipped_paths,
                    !.error_count = ev.progress.error_count,
                    !.current = Some(CurrentLabel(ev.current))]

\* Mutant: the Finished event brings the Main screen back.
apply_clean_event_to_main(ev) ==
    /\ IF ev.type = "Progress"
       THEN /\ screen' = ApplyProgress(screen, ev)
            /\ UNCHANGED result_lines
       ELSE /\ screen' = MainScreen
            /\ result_lines' =
                 format_delete_summary(ev.summary, options.dry_run, ev.canceled)
    /\ UNCHANGED <<options, listVars, statVars>>
\* App::apply_clean_event for the event at the head of the channel.
apply_clean_event(ev) ==
    /\ IF ev.type = "Progress"
       THEN /\ screen' = ApplyProgress(screen, ev)
            /\ UNCHANGED result_lines
       ELSE /\ screen' = ResultScreen
            /\ result_lines' =
                 format_delete_summary(ev.summary, options.dry_run, ev.canceled)
    /\ UNCHANGED <<options, listVars, statVars>>

\* `while let Ok(event) = rx.try_recv() { app.apply_event(..) }`, one event.
ApplyCleanEvent ==
    /\ fpc = "drain"
    /\ ~exited
    /\ chan # <<>>
    /\ Head(chan).app = "Clean"
    /\ apply_clean_event(Head(chan))
    /\ chan' = Tail(chan)
    /\ UNCHANGED <<fpc, exited, scan_cancel, clean_cancel, workerVars, envVars,
                   scanVars, planVars>>

\* The channel is empty: the loop leaves the drain, draws and polls the keys.
\* Drawing the Cleaning, Confirm and Result screens changes nothing.
DrawOther ==
    /\ fpc = "drain"
    /\ ~exited
    /\ chan = <<>>
    /\ screen.kind # "Main"
    /\ fpc' = "poll"
    /\ UNCHANGED <<options, listVars, statVars, screen, result_lines, exited,
                   scan_cancel, clean_cancel, chan, workerVars, envVars,
                   scanVars, planVars>>

\* event::poll timed out with no key: the loop starts over.
PollTimeout ==
    /\ fpc = "poll"
    /\ ~exited
    /\ fpc' = "drain"
    /\ UNCHANGED <<options, listVars, statVars, screen, result_lines, exited,
                   scan_cancel, clean_cancel, chan, workerVars, envVars,
                   scanVars, planVars>>

\* The keys the handlers tell apart, Ctrl+C aside (handle_key takes it first);
\* "other" is any key that falls to the `_` arm of a handler.
MainKeys == {"q", "Esc", "Up", "Down", "PageUp", "PageDown", "Space",
             "a", "n", "Tab", "Enter", "other"}
ConfirmKeys == {"y", "Y", "Esc", "q", "n", "N", "other"}
CleaningKeys == {"q", "Esc", "other"}

\* handle_key returned true: run leaves its loop and sets both flags.
EndSession ==
    /\ exited' = TRUE
    /\ scan_cancel' = TRUE
    /\ clean_cancel' = TRUE
    /\ UNCHANGED <<options, listVars, statVars, screen, result_lines, fpc,
                   chan, workerVars, envVars, scanVars, planVars>>

\* The cancel request of the Cleaning screen.
RequestCancel ==
    /\ clean_cancel' = TRUE
    /\ screen' = [screen EXCEPT !.cancel_requested = TRUE]
    /\ fpc' = "drain"
    /\ UNCHANGED <<options, listVars, statVars, result_lines, exited,
                   scan_cancel, chan, workerVars, envVars, scanVars, planVars>>

\* A key that changes nothing: the loop starts over.
IgnoreKey ==
    /\ fpc' = "drain"
    /\ UNCHANGED <<options, listVars, statVars, screen, result_lines, exited,
                   scan_cancel, clean_cancel, chan, workerVars, envVars,
                   scanVars, planVars>>

KeyPolled == fpc = "poll" /\ ~exited

\* Mutant: Ctrl+C ends the session in every screen.
KeyInterruptAlwaysEnds == KeyPolled /\ EndSession
\* handle_key, Ctrl+C: a cancel request in Cleaning, the end of the session
\* in every other screen.
KeyInterrupt ==
    /\ KeyPolled
    /\ IF screen.kind = "Cleaning" THEN RequestCancel ELSE EndSession

\* Mutant: q and Esc leave the session as they do in Main.
handle_key_cleaning_quits(key) ==
    IF key \in {"q", "Esc"} THEN EndSession ELSE IgnoreKey
\* handle_key_cleaning for one key
handle_key_cleaning(key) ==
    IF key \in {"q", "Esc"} THEN RequestCancel ELSE IgnoreKey

KeyCleaning ==
    /\ KeyPolled
    /\ screen.kind = "Cleaning"
    /\ \E key \in CleaningKeys : handle_key_cleaning(key)

\* handle_key, ScreenKind::Result => Ok(true): whatever the key
KeyResult ==
    /\ KeyPolled
    /\ screen.kind = "Result"
    /\ EndSession

\* App::new, the screen aside.
AppNew ==
    /\ sort_mode = "Age"
    /\ items = <<>>
    /\ cursor = None
    /\ pending_heads = <<>>
    /\ new_repo_default_selected = None
    /\ scan_total = None
    /\ scan_processed = 0
    /\ scan_done = FALSE
    /\ artifacts_found = 0
    /\ result_lines = <<>>
    /\ fpc = "drain"

\* No scan worker takes part: it ended before, its events consumed.
ScanWorkerAbsent ==
    /\ spc = "finished"
    /\ artifact_dir_names = {}
    /\ candidates = <<>>
    /\ scan_todo = <<>>
    /\ scan_count = 0
    /\ head_started = {}

\* No deletion worker was started.
WorkerAbsent ==
    /\ wpc = "idle"
    /\ targets = <<>>
    /\ windex = 0
    /\ summary = NewSummary(<<>>)
    /\ last_processed = 0

\* plan_delete_targets is not called on its own.
WalkAbsent ==
    /\ walk_dirs = <<>>
    /\ walk_todo = {}
    /\ walk_global = [size_bytes |-> 0, newest_mtime |-> None]

PlanAbsent ==
    /\ plan_in = <<>>
    /\ plan_out = None
    /\ WalkAbsent

\* ------------------------------------------ the deletion job on its own
\* The targets the executor is tried on: an artifact of repository a, its
\* .git directory, and an artifact of repository b as large as a u64 can say.
ExecTargets ==
    {DeleteTarget(<<"a">>, <<"a", "target">>, 2),
     DeleteTarget(<<"a">>, <<"a", ".git">>, 1),
     DeleteTarget(<<"b">>, <<"b", "node_modules">>, MaxU64)}
ExecPaths == {t.path : t \in ExecTargets}
TargetLists == UNION {[1..k -> ExecTargets] : k \in 0..MaxTargets}

\* The state handle_key_confirm leaves on `y`: both flags written, the worker
\* spawned on the targets, the screen Cleaning.  The targets are any list a
\* caller of execute_delete_with_progress may pass.
CleanInit ==
    /\ options \in [min_size_bytes : {0}, dry_run : BOOLEAN]
    /\ targets \in TargetLists
    /\ fs = ExecPaths
    /\ AppNew
    /\ screen = CleaningData(targets)
    /\ exited = FALSE
    /\ scan_cancel = TRUE
    /\ clean_cancel = FALSE
    /\ chan = <<>>
    /\ wpc = "loop"
    /\ windex = 0
    /\ summary = NewSummary(targets)
    /\ last_processed = 0
    /\ calls = <<>>
    /\ sent = <<>>
    /\ ScanWorkerAbsent
    /\ PlanAbsent

CleanNext ==
    \/ CleanWorker
    \/ ApplyCleanEvent
    \/ DrawOther
    \/ PollTimeout
    \/ KeyInterrupt
    \/ KeyCleaning
    \/ KeyResult

SpecClean == CleanInit /\ [][CleanNext]_vars

\* One step of run's loop: an event consumed, a draw, a poll that returns.
CleanForeground ==
    \/ ApplyCleanEvent
    \/ DrawOther
    \/ PollTimeout
    \/ KeyInterrupt
    \/ KeyCleaning
    \/ KeyResult

\* The deletion job on targets in the order of their paths, where both
\* threads keep running: the worker thread takes
\* its next step (each operation on a target returns), and run's loop takes
\* its next step (try_recv does not block, event::poll returns at its timeout).
CleanLiveInit ==
    /\ CleanInit
    /\ \A i, j \in DOMAIN targets :
          i < j => PathCmp(targets[i].path, targets[j].path) <= 0
SpecCleanLive ==
    /\ CleanLiveInit
    /\ [][CleanNext]_vars
    /\ WF_vars(CleanWorker)
    /\ WF_vars(CleanForeground)


\* ------------------------------------------------ report.rs: the reports
DirStats(size, mtime) == [size_bytes |-> size, newest_mtime |-> mtime]
ArtifactRecord(root, path, stats) ==
    [repo_root |-> root, path |-> path, stats |-> stats]

\* slice::sort_by, a stable sort: each element goes before the first one it
\* is strictly less than.  before[i][j] tells whether s[i] is less than s[j].
StableSort(s, before) ==
    LET Insert(sorted, x) ==
            LET later == {i \in 1..Len(sorted) : before[x][sorted[i]]}
                pos == IF later = {} THEN Len(sorted) + 1
                       ELSE CHOOSE i \in later : \A j \in later : i <= j
            IN  SubSeq(sorted, 1, pos - 1) \o <<x>> \o SubSeq(sorted, pos, Len(sorted))
        order[k \in 0..Len(s)] == IF k = 0 THEN <<>> ELSE Insert(order[k - 1], k)
    IN  [i \in 1..Len(s) |-> s[order[Len(s)][i]]]

\* The order of the artifacts of a report: larger first, then by path.
ArtifactBefore(a, b) ==
    \/ a.stats.size_bytes > b.stats.size_bytes
    \/ /\ a.stats.size_bytes = b.stats.size_bytes
       /\ PathCmp(a.path, b.path) = -1
SortArtifacts(arts) ==
    StableSort(arts, [i \in 1..Len(arts) |->
                        [j \in 1..Len(arts) |-> ArtifactBefore(arts[i], arts[j])]])

\* Option<SystemTime>::max and Iterator::max over the present timestamps:
\* None is below every Some.
MaxTime(a, b) ==
    IF a = None THEN b
    ELSE IF b = None THEN a
    ELSE Some(Max(a[1], b[1]))

\* The RepoReport collect_reports builds from the records of one repository.
RepoReport(root, head, arts) ==
    LET total[k \in 0..Len(arts)] ==
            IF k = 0 THEN 0
            ELSE WrappingAdd(total[k - 1], arts[k].stats.size_bytes)
        newest[k \in 0..Len(arts)] ==
            IF k = 0 THEN None
            ELSE MaxTime(newest[k - 1], arts[k].stats.newest_mtime)
    IN  [repo_root |-> root, head |-> head, artifacts |-> SortArtifacts(arts),
         total_size_bytes |-> total[Len(arts)],
         newest_mtime |-> newest[Len(arts)]]

\* ------------------------------------------------- clean.rs: the planner
\* The targets pushed for one (report, is_selected) pair.
TargetsOf(pair) ==
    IF ~pair.selected THEN <<>>
    ELSE [i \in 1..Len(pair.report.artifacts) |->
            DeleteTarget(pair.report.repo_root, pair.report.artifacts[i].path,
                         pair.report.artifacts[i].stats.size_bytes)]

\* The targets pushed by the two nested loops, in the order of the pairs.
Flatten(pairs) ==
    LET f[k \in 0..Len(pairs)] ==
            IF k = 0 THEN <<>> ELSE f[k - 1] \o TargetsOf(pairs[k])
    IN  f[Len(pairs)]

TargetBefore(a, b) == PathCmp(a.path, b.path) = -1

\* Vec::dedup_by(|a, b| a.path == b.path): of equal neighbours the first stays.
DedupByPath(ts) ==
    LET f[k \in 0..Len(ts)] ==
            IF k = 0 THEN <<>>
            ELSE IF k > 1 /\ ts[k].path = ts[k - 1].path THEN f[k - 1]
            ELSE Append(f[k - 1], ts[k])
    IN  f[Len(ts)]

\* Mutant: the targets are deduplicated but left in the order of the pairs.
plan_delete_targets_unsorted(pairs) == DedupByPath(Flatten(pairs))
plan_delete_targets(pairs) ==
    LET ts == Flatten(pairs)
    IN  DedupByPath(StableSort(ts, [i \in 1..Len(ts) |->
                                      [j \in 1..Len(ts) |-> TargetBefore(ts[i], ts[j])]]))

\* ------------------------------------------------ the planner on its own
\* The pairs the planner is called with are reports as a scan leaves them:
\* one per repository root, each artifact path under one root.  Repository
\* a holds a/a/target and a/target, the nested repository a/b holds
\* a/b/target, repository b holds b/node_modules.
PlanRecords(root) ==
    IF root = <<"a">>
    THEN {<<ArtifactRecord(root, <<"a", "target">>, DirStats(2, None))>>,
          <<ArtifactRecord(root, <<"a", "a", "target">>, DirStats(1, None)),
            ArtifactRecord(root, <<"a", "target">>, DirStats(2, None))>>}
    ELSE IF root = <<"a", "b">>
    THEN {<<ArtifactRecord(root, <<"a", "b", "target">>, DirStats(2, None))>>}
    ELSE {<<ArtifactRecord(root, <<"b", "node_modules">>, DirStats(1, None))>>}
PlanRoots == <<(<<"a">>), (<<"a", "b">>), (<<"b">>)>>
PlanPairs(root) ==
    {[report |-> RepoReport(root, None, arts), selected |-> sel] :
        arts \in PlanRecords(root), sel \in BOOLEAN}
\* Every list of pairs with pairwise different repository roots, the roots
\* in the order of PlanRoots.
PlanInputs ==
    {ps \in UNION {[1..k -> UNION {PlanPairs(PlanRoots[r]) : r \in 1..Len(PlanRoots)}] :
                        k \in 0..Len(PlanRoots)} :
        \A i, j \in 1..Len(ps) :
            i < j => \E q, r \in 1..Len(PlanRoots) :
                        /\ q < r
                        /\ ps[i].report.repo_root = PlanRoots[q]
                        /\ ps[j].report.repo_root = PlanRoots[r]}

PlanInit ==
    /\ plan_in \in PlanInputs
    /\ plan_out = None
    /\ WalkAbsent
    /\ options = [min_size_bytes |-> 0, dry_run |-> FALSE]
    /\ AppNew
    /\ screen = MainScreen
    /\ exited = FALSE
    /\ scan_cancel = FALSE
    /\ clean_cancel = FALSE
    /\ chan = <<>>
    /\ WorkerAbsent
    /\ fs = {}
    /\ calls = <<>>
    /\ sent = <<>>
    /\ ScanWorkerAbsent

\* let targets = plan_delete_targets(..)
PlanTargets ==
    /\ plan_out' = Some(plan_delete_targets(plan_in))
    /\ UNCHANGED <<plan_in, walkVars, appVars, scan_cancel, clean_cancel,
                   chan, workerVars, envVars, scanVars>>

\* The caller passes the same pairs in another order: two neighbours swap.
PlanReorder ==
    /\ \E i \in 1..(Len(plan_in) - 1) :
          plan_in' = [plan_in EXCEPT ![i] = plan_in[i + 1], ![i + 1] = plan_in[i]]
    /\ UNCHANGED <<plan_out, walkVars, appVars, scan_cancel, clean_cancel,
                   chan, workerVars, envVars, scanVars>>

PlanNext == PlanTargets \/ PlanReorder

SpecPlan == PlanInit /\ [][PlanNext]_vars

\* ---------------------------------------------------- scan.rs: discovery
\* The directories read_dir(dir) lists.
Children(tree, dir) ==
    {p \in tree : Len(p) = Len(dir) + 1 /\ IsPrefix(dir, p)}

\* Mutant: the test for the name .git is missing.
RECURSIVE scan_dir_keeps_git(_, _, _)
scan_dir_keeps_git(tree, dir, names) ==
    UNION {IF p[Len(p)] \in names THEN {p}
           ELSE scan_dir_keeps_git(tree, p, names) : p \in Children(tree, dir)}
\* The entries that are symbolic links to directories, and the directories
\* read_dir fails on, in every tree that holds them.
SymlinkPaths == {<<"a", "c">>}
UnreadablePaths == {<<"a", "a">>}
\* Mutant: a directory of a configured name is pushed and scanned as well.
RECURSIVE scan_dir_descends(_, _, _)
scan_dir_descends(tree, dir, names) ==
    IF dir \in UnreadablePaths THEN {}
    ELSE UNION {IF p \in SymlinkPaths THEN {}
                ELSE IF FileName(p) = Some(".git") THEN {}
                ELSE IF p[Len(p)] \in names
                THEN {p} \cup scan_dir_descends(tree, p, names)
                ELSE scan_dir_descends(tree, p, names) : p \in Children(tree, dir)}
\* scan_dir: the paths pushed for dir and for the directories below it.
\* Nothing is found in a directory that cannot be read; an entry that is not
\* a directory (a symbolic link is none) and a directory named .git are
\* passed over, a directory of a configured name is pushed and not entered,
\* any other directory is scanned in its turn.
RECURSIVE scan_dir(_, _, _)
scan_dir(tree, dir, names) ==
    IF dir \in UnreadablePaths THEN {}
    ELSE UNION {IF p \in SymlinkPaths THEN {}
                ELSE IF FileName(p) = Some(".git") THEN {}
                ELSE IF p[Len(p)] \in names THEN {p}
                ELSE scan_dir(tree, p, names) : p \in Children(tree, dir)}

\* results.sort(); results.dedup(): the pushed paths, each once, ascending.
SortedPaths(S) ==
    CHOOSE s \in [1..Cardinality(S) -> S] :
        \A i, j \in 1..Cardinality(S) : i < j => PathCmp(s[i], s[j]) = -1

scan_artifact_dirs(tree, root, names) == SortedPaths(scan_dir(tree, root, names))

\* --------------------------------------------------- git.rs: the repository
\* has_dot_git(dir)
has_dot_git(tree, dir) == Append(dir, ".git") \in tree

\* find_git_root: the nearest of start and its ancestors that holds .git.
\* Nothing above the scan root holds one.
RECURSIVE find_git_root(_, _)
find_git_root(tree, start) ==
    IF has_dot_git(tree, start) THEN Some(start)
    ELSE IF Len(start) = 0 THEN None
    ELSE find_git_root(tree, SubSeq(start, 1, Len(start) - 1))

\* ------------------------------------------------------ tui.rs: the list
\* The instant run reads as `now`, and the seconds of a day, scaled down.
Now == 400
SecondsPerDay == 2
AUTO_SELECT_DAYS == 180

RepoItem(report, head_loaded, selected, selection_mode) ==
    [report |-> report, head_loaded |-> head_loaded, selected |-> selected,
     selection_mode |-> selection_mode,
     repo_display |-> display_rel_path(ScanRoot, report.repo_root)]

repo_age_days(report) ==
    IF report.newest_mtime = None THEN None
    ELSE IF report.newest_mtime[1] > Now THEN None
    ELSE Some((Now - report.newest_mtime[1]) \div SecondsPerDay)

\* -1, 0 or 1: a present time before an absent one.
cmp_time_key(a, b) ==
    IF a # None /\ b # None
    THEN (IF a[1] < b[1] THEN -1 ELSE IF a[1] > b[1] THEN 1 ELSE 0)
    ELSE IF a # None THEN -1
    ELSE IF b # None THEN 1
    ELSE 0

is_visible(report) ==
    /\ report.total_size_bytes >= options.min_size_bytes
    /\ Len(report.artifacts) # 0

should_auto_select(report) ==
    IF report.total_size_bytes < options.min_size_bytes \/ Len(report.artifacts) = 0
    THEN FALSE
    ELSE IF repo_age_days(report) = None THEN FALSE
    ELSE repo_age_days(report)[1] >= AUTO_SELECT_DAYS

\* The visible items, in the order of the list: the rows of the table.
VisibleItems(its) == SelectSeq(its, LAMBDA it : is_visible(it.report))
visible_len(its) == Len(VisibleItems(its))

sort_key_for_report(mode, report) ==
    IF mode = "Age" THEN <<"Age", report.newest_mtime>>
    ELSE <<"Size", report.total_size_bytes, report.newest_mtime>>

\* The comparators of sort_keep_cursor.
ItemBefore(mode, a, b) ==
    LET time == cmp_time_key(a.report.newest_mtime, b.report.newest_mtime)
        root == PathCmp(a.report.repo_root, b.report.repo_root)
        size == IF b.report.total_size_bytes < a.report.total_size_bytes THEN -1
                ELSE IF b.report.total_size_bytes > a.report.total_size_bytes THEN 1
                ELSE 0
    IN  IF mode = "Age" THEN time = -1 \/ (time = 0 /\ root = -1)
        ELSE \/ size = -1
             \/ size = 0 /\ time = -1
             \/ size = 0 /\ time = 0 /\ root = -1

\* The repository root of the row under the cursor.
selected_repo_root(its, cur) ==
    IF cur = None THEN None
    ELSE IF cur[1] < visible_len(its)
    THEN Some(VisibleItems(its)[cur[1] + 1].report.repo_root)
    ELSE None

ensure_selection_valid(its, cur) ==
    IF visible_len(its) = 0 THEN None
    ELSE IF cur # None /\ cur[1] < visible_len(its) THEN cur
    ELSE Some(0)

restore_selection(its, repo_root) ==
    LET vis == VisibleItems(its)
        rows == {r \in 1..Len(vis) : Some(vis[r].report.repo_root) = repo_root}
    IN  IF Len(vis) = 0 THEN None
        ELSE IF repo_root # None /\ rows # {}
        THEN Some((CHOOSE r \in rows : \A q \in rows : r <= q) - 1)
        ELSE Some(0)

\* The list and the cursor as a pair.
ListOf(its, cur) == [items |-> its, cursor |-> cur]

\* Mutant: the list is sorted and the cursor keeps its row.
sort_keep_row(mode, its, cur) ==
    LET sorted == StableSort(its, [i \in 1..Len(its) |->
                                    [j \in 1..Len(its) |-> ItemBefore(mode, its[i], its[j])]])
    IN  ListOf(sorted, ensure_selection_valid(sorted, cur))
sort_keep_cursor(mode, its, cur) ==
    LET sorted == StableSort(its, [i \in 1..Len(its) |->
                                    [j \in 1..Len(its) |-> ItemBefore(mode, its[i], its[j])]])
    IN  ListOf(sorted, restore_selection(sorted, selected_repo_root(its, cur)))

move_cursor_up(its, cur) ==
    IF visible_len(its) = 0 THEN None
    ELSE LET current == Min(IF cur = None THEN 0 ELSE cur[1], visible_len(its) - 1)
         IN  Some(Max(current - 1, 0))

\* Mutant: the cursor goes down one row, past the last one too.
move_cursor_down_unclamped(its, cur) ==
    IF visible_len(its) = 0 THEN None
    ELSE LET current == Min(IF cur = None THEN 0 ELSE cur[1], visible_len(its) - 1)
         IN  Some(current + 1)
move_cursor_down(its, cur) ==
    IF visible_len(its) = 0 THEN None
    ELSE LET current == Min(IF cur = None THEN 0 ELSE cur[1], visible_len(its) - 1)
         IN  Some(Min(current + 1, visible_len(its) - 1))

move_cursor_by(its, cur, delta) ==
    IF visible_len(its) = 0 THEN None
    ELSE LET current == IF cur = None THEN 0 ELSE cur[1]
         IN  Some(Max(0, Min(current + delta, visible_len(its) - 1)))

\* The index in the list of the visible row `row`, 0 when there is none.
IndexOfRow(its, row) ==
    LET at == {i \in 1..Len(its) :
                 /\ is_visible(its[i].report)
                 /\ visible_len(SubSeq(its, 1, i)) = row + 1}
    IN  IF at = {} THEN 0 ELSE CHOOSE i \in at : TRUE

toggle_current(its, cur) ==
    IF cur = None \/ IndexOfRow(its, cur[1]) = 0 THEN its
    ELSE [its EXCEPT ![IndexOfRow(its, cur[1])] =
             [@ EXCEPT !.selected = ~@, !.selection_mode = "Manual"]]

\* Mutant: only the visible items are set.
select_all_visible(its, value) ==
    [i \in 1..Len(its) |->
        IF is_visible(its[i].report)
        THEN [its[i] EXCEPT !.selected = value, !.selection_mode = "Manual"]
        ELSE its[i]]
select_all(its, value) ==
    [i \in 1..Len(its) |->
        [its[i] EXCEPT !.selected = value, !.selection_mode = "Manual"]]

\* The index of the item of a repository root, 0 when there is none.
IndexOfRoot(its, root) ==
    LET at == {i \in 1..Len(its) : its[i].report.repo_root = root}
    IN  IF at = {} THEN 0 ELSE CHOOSE i \in at : \A j \in at : i <= j

\* Mutant: the selection rule is applied to an item in Manual mode too.
ItemWithArtifactAlwaysAuto(item, record) ==
    LET report == [item.report EXCEPT
                     !.total_size_bytes = SaturatingAdd(@, record.stats.size_bytes),
                     !.newest_mtime = MaxTime(@, record.stats.newest_mtime),
                     !.artifacts = SortArtifacts(Append(@, record))]
    IN  [item EXCEPT !.report = report, !.selected = should_auto_select(report)]
\* Mutant: the selection of an item in Auto mode is left as it was.
ItemWithArtifactKeepsSelection(item, record) ==
    [item EXCEPT
       !.report = [item.report EXCEPT
                     !.total_size_bytes = SaturatingAdd(@, record.stats.size_bytes),
                     !.newest_mtime = MaxTime(@, record.stats.newest_mtime),
                     !.artifacts = SortArtifacts(Append(@, record))]]
\* Mutant: the total wraps and the timestamp of the record is dropped.
ItemWithArtifactStale(item, record) ==
    LET report == [item.report EXCEPT
                     !.total_size_bytes = WrappingAdd(@, record.stats.size_bytes),
                     !.artifacts = SortArtifacts(Append(@, record))]
    IN  [item EXCEPT
           !.report = report,
           !.selected = IF item.selection_mode = "Auto"
                        THEN should_auto_select(report) ELSE @]
\* upsert_artifact when the repository has an item: the item after the record.
ItemWithArtifact(item, record) ==
    LET report == [item.report EXCEPT
                     !.total_size_bytes = SaturatingAdd(@, record.stats.size_bytes),
                     !.newest_mtime = MaxTime(@, record.stats.newest_mtime),
                     !.artifacts = SortArtifacts(Append(@, record))]
    IN  [item EXCEPT
           !.report = report,
           !.selected = IF item.selection_mode = "Auto"
                        THEN should_auto_select(report) ELSE @]

\* Mutant: the item pushed takes no pending head.
ItemOfArtifactNoHead(record, heads, default_selected) ==
    LET report == [repo_root |-> record.repo_root,
                   head |-> None,
                   artifacts |-> <<record>>,
                   total_size_bytes |-> record.stats.size_bytes,
                   newest_mtime |-> record.stats.newest_mtime]
    IN  IF default_selected # None
        THEN RepoItem(report, FALSE, default_selected[1], "Manual")
        ELSE RepoItem(report, FALSE, should_auto_select(report), "Auto")
\* upsert_artifact when the repository has no item yet: the item pushed.
ItemOfArtifact(record, heads, default_selected) ==
    LET root == record.repo_root
        report == [repo_root |-> root,
                   head |-> IF root \in DOMAIN heads THEN heads[root] ELSE None,
                   artifacts |-> <<record>>,
                   total_size_bytes |-> record.stats.size_bytes,
                   newest_mtime |-> record.stats.newest_mtime]
    IN  IF default_selected # None
        THEN RepoItem(report, root \in DOMAIN heads, default_selected[1], "Manual")
        ELSE RepoItem(report, root \in DOMAIN heads, should_auto_select(report), "Auto")

\* Mutant: a record is added whether or not its path is recorded.
upsert_artifact_again(record) ==
    LET k == IndexOfRoot(items, record.repo_root)
    IN  IF k # 0
        THEN LET its == [items EXCEPT ![k] = ItemWithArtifact(@, record)]
             IN  IF sort_key_for_report(sort_mode, items[k].report)
                       # sort_key_for_report(sort_mode, its[k].report)
                 THEN sort_keep_cursor(sort_mode, its, cursor)
                 ELSE ListOf(its, ensure_selection_valid(its, cursor))
        ELSE LET its == Append(items, ItemOfArtifact(record, pending_heads,
                                                     new_repo_default_selected))
                 list == sort_keep_cursor(sort_mode, its, cursor)
             IN  ListOf(list.items, ensure_selection_valid(list.items, list.cursor))
\* Mutant: a record added to an item never moves the item.
upsert_artifact_in_place(record) ==
    LET k == IndexOfRoot(items, record.repo_root)
    IN  IF k # 0
        THEN IF \E i \in 1..Len(items[k].report.artifacts) :
                    items[k].report.artifacts[i].path = record.path
             THEN ListOf(items, cursor)
             ELSE LET its == [items EXCEPT ![k] = ItemWithArtifact(@, record)]
                  IN  ListOf(its, ensure_selection_valid(its, cursor))
        ELSE LET its == Append(items, ItemOfArtifact(record, pending_heads,
                                                     new_repo_default_selected))
                 list == sort_keep_cursor(sort_mode, its, cursor)
             IN  ListOf(list.items, ensure_selection_valid(list.items, list.cursor))
\* App::upsert_artifact: the list and the cursor after the record.
upsert_artifact(record) ==
    LET k == IndexOfRoot(items, record.repo_root)
    IN  IF k # 0
        THEN IF \E i \in 1..Len(items[k].report.artifacts) :
                    items[k].report.artifacts[i].path = record.path
             THEN ListOf(items, cursor)
             ELSE LET its == [items EXCEPT ![k] = ItemWithArtifact(@, record)]
                  IN  IF sort_key_for_report(sort_mode, items[k].report)
                            # sort_key_for_report(sort_mode, its[k].report)
                      THEN sort_keep_cursor(sort_mode, its, cursor)
                      ELSE ListOf(its, ensure_selection_valid(its, cursor))
        ELSE LET its == Append(items, ItemOfArtifact(record, pending_heads,
                                                     new_repo_default_selected))
                 list == sort_keep_cursor(sort_mode, its, cursor)
             IN  ListOf(list.items, ensure_selection_valid(list.items, list.cursor))

\* A map without the key k.
Without(map, k) == [x \in DOMAIN map \ {k} |-> map[x]]
\* A map with the key k set to v.
With(map, k, v) == [x \in DOMAIN map \cup {k} |-> IF x = k THEN v ELSE map[x]]

\* ------------------------------------------------ tui.rs: the scan worker
ScanCandidatesTotal(total) ==
    [app |-> "Scan", type |-> "CandidatesTotal", total |-> total]
ScanCandidateProcessed(processed) ==
    [app |-> "Scan", type |-> "CandidateProcessed", processed |-> processed]
ScanRepoHead(repo_root, head) ==
    [app |-> "Scan", type |-> "RepoHead", repo_root |-> repo_root, head |-> head]
ScanArtifact(record) == [app |-> "Scan", type |-> "Artifact", record |-> record]
ScanFinished == [app |-> "Scan", type |-> "Finished"]

\* What dir_stats can measure for a candidate, and the commit git_head finds
\* in a repository; repository b has no commit.
StatChoices ==
    {DirStats(1, Some(Now - AUTO_SELECT_DAYS * SecondsPerDay)),
     DirStats(2, Some(Now - AUTO_SELECT_DAYS * SecondsPerDay + 1)),
     DirStats(1, None)}
git_head(repo_root) ==
    IF repo_root \in {<<"a">>, <<"c">>} THEN Some("commit") ELSE None
\* The directories of repository c are large, the sizes of two of them pass
\* the largest u64, or empty.
LargeStatChoices ==
    {DirStats(MaxU64 - 1, Some(Now - AUTO_SELECT_DAYS * SecondsPerDay)),
     DirStats(0, Some(Now - AUTO_SELECT_DAYS * SecondsPerDay)),
     DirStats(2, Some(Now - AUTO_SELECT_DAYS * SecondsPerDay + 1)),
     DirStats(1, None)}

\* A task of par_iter().for_each that has not run; one that has confirmed
\* its candidate (record absent or present) and has its events to send.
TaskNew == [at |-> "new"]
TaskSend(ignored, record, spawn_head) ==
    [at |-> "send", ignored |-> ignored, record |-> record,
     should_spawn_head |-> spawn_head]

ScanRunning == spc = "each" /\ ~exited

\* scan_worker up to the parallel loop: the early return on a cancelled
\* scan, discovery, CandidatesTotal, and the end when no candidate is found.
ScanStart ==
    /\ spc = "start"
    /\ ~exited
    /\ IF scan_cancel
       THEN /\ spc' = "finished"
            /\ UNCHANGED <<candidates, scan_todo, chan>>
       ELSE LET found == scan_artifact_dirs(fs, ScanRoot, artifact_dir_names)
            IN  /\ candidates' = found
                /\ IF Len(found) = 0
                   THEN /\ chan' = chan \o <<ScanCandidatesTotal(0), ScanFinished>>
                        /\ spc' = "finished"
                        /\ UNCHANGED scan_todo
                   ELSE /\ chan' = Append(chan, ScanCandidatesTotal(Len(found)))
                        /\ spc' = "each"
                        /\ scan_todo' = [i \in 1..Len(found) |-> TaskNew]
    /\ UNCHANGED <<artifact_dir_names, scan_count, head_started, appVars,
                   scan_cancel, clean_cancel, workerVars, envVars, planVars>>

\* A task sees the scan cancelled and returns, counting nothing.
ScanTaskCancelled ==
    /\ ScanRunning
    /\ scan_cancel
    /\ \E i \in DOMAIN scan_todo :
          /\ scan_todo[i] = TaskNew
          /\ scan_todo' = Without(scan_todo, i)
    /\ UNCHANGED <<spc, artifact_dir_names, candidates, scan_count, head_started,
                   chan, appVars, scan_cancel, clean_cancel, workerVars, envVars,
                   planVars>>

\* What dir_stats can answer: an error, or the stats measured.
StatResults(path) ==
    {None} \cup {Some(st) : st \in IF path[1] = "c" THEN LargeStatChoices
                                  ELSE StatChoices}

\* Mutant: a candidate git calls not ignored is recorded like an ignored one.
process_candidate_unchecked(tree, path, ignored, stats) ==
    IF find_git_root(tree, path) = None THEN None
    ELSE IF ignored = Some("error") THEN None
    ELSE IF stats = None THEN None
    ELSE Some(ArtifactRecord(find_git_root(tree, path)[1], path, stats[1]))
\* process_candidate(path), given what is_git_ignored and dir_stats answer:
\* no record without a repository, when git does not answer that the path is
\* ignored, or when the stats fail.
process_candidate(tree, path, ignored, stats) ==
    IF find_git_root(tree, path) = None THEN None
    ELSE IF ignored # Some("true") THEN None
    ELSE IF stats = None THEN None
    ELSE Some(ArtifactRecord(find_git_root(tree, path)[1], path, stats[1]))

\* Mutant: every task with a record takes the head lookup.
started_insert_always(started, root) == TRUE
\* head_started.lock().insert(repo_root): true when the root is new to the set
started_insert(started, root) == root \notin started

\* Mutant: a task goes on with its candidate without looking at the cancel
\* flag.
ScanTaskProcessUnchecked ==
    /\ ScanRunning
    /\ \E i \in DOMAIN scan_todo :
          /\ scan_todo[i] = TaskNew
          /\ LET path == candidates[i]
                 root == find_git_root(fs, path)
                 answers == IF root = None THEN {None}
                            ELSE {Some(a) : a \in IgnoreAnswers(
                                     [repo_root |-> root[1], path |-> path])}
             IN  \E ignored \in answers, stats \in StatResults(path) :
                    LET record == process_candidate(fs, path, ignored, stats)
                    IN  IF record = None
                        THEN /\ scan_todo' = [scan_todo EXCEPT ![i] =
                                    TaskSend(ignored, None, FALSE)]
                             /\ UNCHANGED head_started
                        ELSE /\ scan_todo' = [scan_todo EXCEPT ![i] =
                                    TaskSend(ignored, record,
                                             started_insert(head_started,
                                                            record[1].repo_root))]
                             /\ head_started' =
                                    head_started \cup {record[1].repo_root}
    /\ UNCHANGED <<spc, artifact_dir_names, candidates, scan_count, chan,
                   appVars, scan_cancel, clean_cancel, workerVars, envVars,
                   planVars>>
\* A task runs process_candidate on its candidate and, with a record,
\* claims the head lookup of the repository if no task has.  git is asked
\* only when a repository root was found.
ScanTaskProcess ==
    /\ ScanRunning
    /\ ~scan_cancel
    /\ \E i \in DOMAIN scan_todo :
          /\ scan_todo[i] = TaskNew
          /\ LET path == candidates[i]
                 root == find_git_root(fs, path)
                 answers == IF root = None THEN {None}
                            ELSE {Some(a) : a \in IgnoreAnswers(
                                     [repo_root |-> root[1], path |-> path])}
             IN  \E ignored \in answers, stats \in StatResults(path) :
                    LET record == process_candidate(fs, path, ignored, stats)
                    IN  IF record = None
                        THEN /\ scan_todo' = [scan_todo EXCEPT ![i] =
                                    TaskSend(ignored, None, FALSE)]
                             /\ UNCHANGED head_started
                        ELSE /\ scan_todo' = [scan_todo EXCEPT ![i] =
                                    TaskSend(ignored, record,
                                             started_insert(head_started,
                                                            record[1].repo_root))]
                             /\ head_started' =
                                    head_started \cup {record[1].repo_root}
    /\ UNCHANGED <<spc, artifact_dir_names, candidates, scan_count, chan,
                   appVars, scan_cancel, clean_cancel, workerVars, envVars,
                   planVars>>

\* A task that claimed the head lookup of its repository runs git_head and
\* sends RepoHead; the other tasks go on meanwhile.
ScanTaskHead ==
    /\ ScanRunning
    /\ \E i \in DOMAIN scan_todo :
          /\ scan_todo[i].at = "send"
          /\ scan_todo[i].should_spawn_head
          /\ chan' = Append(chan, ScanRepoHead(scan_todo[i].record[1].repo_root,
                                   git_head(scan_todo[i].record[1].repo_root)))
          /\ scan_todo' = [scan_todo EXCEPT ![i].should_spawn_head = FALSE]
    /\ UNCHANGED <<spc, artifact_dir_names, candidates, scan_count,
                   head_started, appVars, scan_cancel, clean_cancel,
                   workerVars, envVars, planVars>>

\* The other events of a task: Artifact if it has a record,
\* CandidateProcessed if its count is due.
TaskEvents(task, count, total) ==
    (IF task.record # None THEN <<ScanArtifact(task.record[1])>> ELSE <<>>)
    \o (IF count = total \/ count % 64 = 0
        THEN <<ScanCandidateProcessed(count)>> ELSE <<>>)

ScanTaskSend ==
    /\ ScanRunning
    /\ \E i \in DOMAIN scan_todo :
          /\ scan_todo[i].at = "send"
          /\ ~scan_todo[i].should_spawn_head
          /\ scan_count' = scan_count + 1
          /\ chan' = chan \o TaskEvents(scan_todo[i], scan_count + 1, Len(candidates))
          /\ scan_todo' = Without(scan_todo, i)
    /\ UNCHANGED <<spc, artifact_dir_names, candidates, head_started, appVars,
                   scan_cancel, clean_cancel, workerVars, envVars, planVars>>

\* Mutant: Finished is sent without the last CandidateProcessed.
ScanFinishBare ==
    /\ ScanRunning
    /\ DOMAIN scan_todo = {}
    /\ spc' = "finished"
    /\ chan' = Append(chan, ScanFinished)
    /\ UNCHANGED <<artifact_dir_names, candidates, scan_todo, scan_count,
                   head_started, appVars, scan_cancel, clean_cancel, workerVars,
                   envVars, planVars>>
\* Every task has returned: the last CandidateProcessed and Finished.
ScanFinish ==
    /\ ScanRunning
    /\ DOMAIN scan_todo = {}
    /\ spc' = "finished"
    /\ chan' = chan \o <<ScanCandidateProcessed(Len(candidates)), ScanFinished>>
    /\ UNCHANGED <<artifact_dir_names, candidates, scan_todo, scan_count,
                   head_started, appVars, scan_cancel, clean_cancel, workerVars,
                   envVars, planVars>>

ScanWorker ==
    \/ ScanStart
    \/ ScanTaskCancelled
    \/ ScanTaskProcess
    \/ ScanTaskHead
    \/ ScanTaskSend
    \/ ScanFinish

\* ------------------------------------------------- tui.rs: the foreground
\* App::apply_scan_event
apply_scan_event(ev) ==
    /\ IF ev.type = "CandidatesTotal"
       THEN /\ scan_total' = Some(ev.total)
            /\ scan_processed' = 0
            /\ UNCHANGED <<scan_done, artifacts_found, listVars>>
       ELSE IF ev.type = "CandidateProcessed"
       THEN /\ scan_processed' = ev.processed
            /\ UNCHANGED <<scan_total, scan_done, artifacts_found, listVars>>
       ELSE IF ev.type = "RepoHead"
       THEN /\ IF IndexOfRoot(items, ev.repo_root) # 0
               THEN /\ items' = [items EXCEPT ![IndexOfRoot(items, ev.repo_root)] =
                                    [@ EXCEPT !.head_loaded = TRUE,
                                              !.report.head = ev.head]]
                    /\ UNCHANGED pending_heads
               ELSE /\ pending_heads' = With(pending_heads, ev.repo_root, ev.head)
                    /\ UNCHANGED items
            /\ UNCHANGED <<sort_mode, cursor, new_repo_default_selected, statVars>>
       ELSE IF ev.type = "Artifact"
       THEN /\ artifacts_found' = artifacts_found + 1
            /\ items' = upsert_artifact(ev.record).items
            /\ cursor' = upsert_artifact(ev.record).cursor
            /\ pending_heads' =
                 IF IndexOfRoot(items, ev.record.repo_root) = 0
                 THEN Without(pending_heads, ev.record.repo_root)
                 ELSE pending_heads
            /\ UNCHANGED <<sort_mode, new_repo_default_selected, scan_total,
                           scan_processed, scan_done>>
       ELSE /\ scan_done' = TRUE
            /\ scan_processed' = IF scan_total # None THEN scan_total[1]
                                 ELSE scan_processed
            /\ UNCHANGED <<scan_total, artifacts_found, listVars>>
    /\ UNCHANGED <<options, screen, result_lines>>

\* `while let Ok(event) = rx.try_recv() { app.apply_event(..) }`, one event.
ApplyScanEvent ==
    /\ fpc = "drain"
    /\ ~exited
    /\ chan # <<>>
    /\ Head(chan).app = "Scan"
    /\ apply_scan_event(Head(chan))
    /\ chan' = Tail(chan)
    /\ UNCHANGED <<fpc, exited, scan_cancel, clean_cancel, workerVars, envVars,
                   scanVars, planVars>>

\* The channel is empty: the loop leaves the drain and draws the Main screen;
\* render_main puts the cursor on a row of the table, or on none.
DrawMain ==
    /\ fpc = "drain"
    /\ ~exited
    /\ chan = <<>>
    /\ screen.kind = "Main"
    /\ cursor' = ensure_selection_valid(items, cursor)
    /\ fpc' = "poll"
    /\ UNCHANGED <<options, sort_mode, items, pending_heads,
                   new_repo_default_selected, statVars, screen, result_lines,
                   exited, scan_cancel, clean_cancel, chan, workerVars, envVars,
                   scanVars, planVars>>

\* Mutant: the pairs of all the items, hidden ones included.
AllPairs(its) ==
    [i \in 1..Len(its) |-> [report |-> its[i].report, selected |-> its[i].selected]]
\* The (report, selected) pairs of the visible items, in the order of the list.
VisiblePairs(its) ==
    [i \in 1..visible_len(its) |->
        [report |-> VisibleItems(its)[i].report,
         selected |-> VisibleItems(its)[i].selected]]

\* Mutant: an empty plan is not told apart and opens the Confirm screen too.
PressEnterAlwaysConfirm ==
    /\ screen' = ConfirmData(plan_delete_targets(VisiblePairs(items)),
                             Len(SelectSeq(items,
                                LAMBDA it : it.selected /\ is_visible(it.report))))
    /\ UNCHANGED <<result_lines, listVars>>
\* handle_key_main, Enter: the plan of the visible items; the Result screen
\* when it is empty, the Confirm screen otherwise.
PressEnter ==
    LET planned == plan_delete_targets(VisiblePairs(items))
        selected_repos == Len(SelectSeq(items,
                                LAMBDA it : it.selected /\ is_visible(it.report)))
    IN  /\ IF Len(planned) = 0
           THEN /\ screen' = ResultScreen
                /\ result_lines' = <<"Nothing to delete for current selection.">>
           ELSE /\ screen' = ConfirmData(planned, selected_repos)
                /\ UNCHANGED result_lines
        /\ UNCHANGED listVars

\* handle_key_main, the keys that change the list or the cursor.
PressListKey(key) ==
    /\ IF key = "Up" THEN
            /\ cursor' = move_cursor_up(items, cursor)
            /\ UNCHANGED <<sort_mode, items, new_repo_default_selected>>
       ELSE IF key = "Down" THEN
            /\ cursor' = move_cursor_down(items, cursor)
            /\ UNCHANGED <<sort_mode, items, new_repo_default_selected>>
       ELSE IF key = "PageUp" THEN
            /\ cursor' = move_cursor_by(items, cursor, -10)
            /\ UNCHANGED <<sort_mode, items, new_repo_default_selected>>
       ELSE IF key = "PageDown" THEN
            /\ cursor' = move_cursor_by(items, cursor, 10)
            /\ UNCHANGED <<sort_mode, items, new_repo_default_selected>>
       ELSE IF key = "Space" THEN
            /\ items' = toggle_current(items, cursor)
            /\ UNCHANGED <<sort_mode, cursor, new_repo_default_selected>>
       ELSE IF key \in {"a", "n"} THEN
            /\ new_repo_default_selected' = Some(key = "a")
            /\ items' = select_all(items, key = "a")
            /\ UNCHANGED <<sort_mode, cursor>>
       ELSE IF key = "Tab" THEN
            LET mode == IF sort_mode = "Age" THEN "Size" ELSE "Age"
            IN  /\ sort_mode' = mode
                /\ items' = sort_keep_cursor(mode, items, cursor).items
                /\ cursor' = sort_keep_cursor(mode, items, cursor).cursor
                /\ UNCHANGED new_repo_default_selected
       ELSE UNCHANGED listVars
    /\ UNCHANGED <<screen, result_lines>>

\* handle_key_main for one key
handle_key_main(key) ==
    IF key \in {"q", "Esc"} THEN EndSession
    ELSE /\ IF key = "Enter" THEN PressEnter ELSE PressListKey(key)
         /\ fpc' = "drain"
         /\ UNCHANGED <<options, pending_heads, statVars, exited,
                        scan_cancel, clean_cancel, chan, workerVars,
                        envVars, scanVars, planVars>>

KeyMain ==
    /\ KeyPolled
    /\ screen.kind = "Main"
    /\ \E key \in MainKeys : handle_key_main(key)

\* Mutant: y starts the deletion and leaves the scan flag as it is.
handle_key_confirm_keeps_scan(key) ==
    IF key \in {"y", "Y"}
    THEN /\ clean_cancel' = FALSE
         /\ wpc' = "loop"
         /\ targets' = screen.targets
         /\ windex' = 0
         /\ summary' = NewSummary(screen.targets)
         /\ last_processed' = 0
         /\ screen' = CleaningData(screen.targets)
         /\ fpc' = "drain"
         /\ UNCHANGED <<options, listVars, statVars, result_lines, exited,
                        scan_cancel, chan, envVars, scanVars, planVars>>
    ELSE IF key \in {"Esc", "q", "n", "N"}
    THEN /\ screen' = MainScreen
         /\ fpc' = "drain"
         /\ UNCHANGED <<options, listVars, statVars, result_lines, exited,
                        scan_cancel, clean_cancel, chan, workerVars,
                        envVars, scanVars, planVars>>
    ELSE IgnoreKey
\* Mutant: y plans again from the list as it is by then.
handle_key_confirm_replans(key) ==
    IF key \in {"y", "Y"}
    THEN /\ scan_cancel' = TRUE
         /\ clean_cancel' = FALSE
         /\ wpc' = "loop"
         /\ targets' = plan_delete_targets(VisiblePairs(items))
         /\ windex' = 0
         /\ summary' = NewSummary(plan_delete_targets(VisiblePairs(items)))
         /\ last_processed' = 0
         /\ screen' = CleaningData(plan_delete_targets(VisiblePairs(items)))
         /\ fpc' = "drain"
         /\ UNCHANGED <<options, listVars, statVars, result_lines, exited,
                        chan, envVars, scanVars, planVars>>
    ELSE IF key \in {"Esc", "q", "n", "N"}
    THEN /\ screen' = MainScreen
         /\ fpc' = "drain"
         /\ UNCHANGED <<options, listVars, statVars, result_lines, exited,
                        scan_cancel, clean_cancel, chan, workerVars,
                        envVars, scanVars, planVars>>
    ELSE IgnoreKey
\* handle_key_confirm for one key: y starts the deletion of the planned
\* targets, Esc, q and n return to the Main screen.
handle_key_confirm(key) ==
    IF key \in {"y", "Y"}
    THEN /\ scan_cancel' = TRUE
         /\ clean_cancel' = FALSE
         /\ wpc' = "loop"
         /\ targets' = screen.targets
         /\ windex' = 0
         /\ summary' = NewSummary(screen.targets)
         /\ last_processed' = 0
         /\ screen' = CleaningData(screen.targets)
         /\ fpc' = "drain"
         /\ UNCHANGED <<options, listVars, statVars, result_lines, exited,
                        chan, envVars, scanVars, planVars>>
    ELSE IF key \in {"Esc", "q", "n", "N"}
    THEN /\ screen' = MainScreen
         /\ fpc' = "drain"
         /\ UNCHANGED <<options, listVars, statVars, result_lines, exited,
                        scan_cancel, clean_cancel, chan, workerVars,
                        envVars, scanVars, planVars>>
    ELSE IgnoreKey

KeyConfirm ==
    /\ KeyPolled
    /\ screen.kind = "Confirm"
    /\ \E key \in ConfirmKeys : handle_key_confirm(key)

\* ------------------------------------------------------------ the session
\* The deletion started by `y` is followed from the state reached here in
\* SpecClean, for every list of targets.
\* The directories under the scan root: repository a with two artifact
\* directories, one holding a node_modules of its own, and repository b
\* with one.
SessionTree ==
    {<<"a">>, <<"a", ".git">>, <<"a", "node_modules">>, <<"a", "target">>,
     <<"a", "target", "node_modules">>,
     <<"b">>, <<"b", ".git">>, <<"b", "target">>}
ArtifactNameSets == {{"target"}, {".git", "node_modules", "target"}}

\* run: the flags clear, the scan worker spawned on the names, App::new.
RunInit(tree, names) ==
    /\ artifact_dir_names = names
    /\ fs = tree
    /\ AppNew
    /\ screen = MainScreen
    /\ exited = FALSE
    /\ scan_cancel = FALSE
    /\ clean_cancel = FALSE
    /\ chan = <<>>
    /\ WorkerAbsent
    /\ calls = <<>>
    /\ sent = <<>>
    /\ spc = "start"
    /\ candidates = <<>>
    /\ scan_todo = <<>>
    /\ scan_count = 0
    /\ head_started = {}
    /\ PlanAbsent

Init ==
    /\ options \in [min_size_bytes : {2}, dry_run : {FALSE}]
    /\ \E names \in ArtifactNameSets : RunInit(SessionTree, names)

Next ==
    \/ ScanWorker
    \/ ApplyScanEvent
    \/ DrawMain
    \/ DrawOther
    \/ PollTimeout
    \/ KeyInterrupt
    \/ KeyMain
    \/ KeyConfirm
    \/ KeyCleaning
    \/ KeyResult

Spec == Init /\ [][Next]_vars

\* ------------------------------------------- the session, deletion included
\* A session followed to its end, the deletion worker and its events
\* included, over two repositories with one artifact directory each.
LifeTree ==
    {<<"a">>, <<"a", ".git">>, <<"a", "target">>,
     <<"b">>, <<"b", ".git">>, <<"b", "target">>}

LifeInit ==
    /\ options \in [min_size_bytes : {2}, dry_run : BOOLEAN]
    /\ RunInit(LifeTree, {"target"})

\* A plan of scan results holds no target named .git and no path twice, and
\* nothing else removes directories, so the arms of the executor for a
\* blocked target and for a directory not found are not taken here.
LifeNext ==
    \/ Next
    \/ ApplyCleanEvent
    \/ ExecCancelled
    \/ ExecNotIgnored
    \/ ExecIgnoreError
    \/ ExecDryRun
    \/ ExecRemoved
    \/ ExecRemoveError
    \/ ExecReturn
    \/ WorkerFinish

SpecLife == LifeInit /\ [][LifeNext]_vars

\* --------------------------------------------------- the scan on its own
\* The scan and the list it fills, with no key but Ctrl+C.  Next to the two
\* repositories a directory named target lies in no repository.  Ctrl+C ends
\* the session with the scan, so no task here sees the scan cancelled while
\* the session goes on: ScanTaskCancelled is left to Spec and SpecLife.
ScanTree == LifeTree \cup {<<"target">>}

\* Repository c with two artifact directories.
LargeTree ==
    {<<"c">>, <<"c", ".git">>, <<"c", "node_modules">>, <<"c", "target">>}

ScanInit ==
    /\ options \in [min_size_bytes : {2}, dry_run : {FALSE}]
    /\ \/ RunInit(ScanTree, {"target"})
       \/ RunInit(LargeTree, {"node_modules", "target"})

ScanNext ==
    \/ ScanStart
    \/ ScanTaskProcess
    \/ ScanTaskHead
    \/ ScanTaskSend
    \/ ScanFinish
    \/ ApplyScanEvent
    \/ DrawMain
    \/ PollTimeout
    \/ KeyInterrupt

SpecScan == ScanInit /\ [][ScanNext]_vars

\* ------------------------------------------------ cli.rs, tui.rs: startup
\* run_with_cli and run up to the loop.  fpc is "cli" at the entry of
\* run_with_cli, "run" at the entry of run, "terminal" before
\* TerminalGuard::enter, and names the error when one is returned; spc is
\* "unspawned" until spawn_scan_worker is called.  An error returned ends
\* the process and every thread with it.
StartErrors == {"invalid root", "no artifact directory names",
                "failed to initialize terminal"}

StartInit ==
    /\ options = [min_size_bytes |-> 2, dry_run |-> FALSE]
    /\ artifact_dir_names \in {{}, {"target"}}
    /\ fs = LifeTree
    /\ fpc = "cli"
    /\ spc = "unspawned"
    /\ sort_mode = "Age"
    /\ items = <<>>
    /\ cursor = None
    /\ pending_heads = <<>>
    /\ new_repo_default_selected = None
    /\ scan_total = None
    /\ scan_processed = 0
    /\ scan_done = FALSE
    /\ artifacts_found = 0
    /\ result_lines = <<>>
    /\ screen = MainScreen
    /\ exited = FALSE
    /\ scan_cancel = FALSE
    /\ clean_cancel = FALSE
    /\ chan = <<>>
    /\ WorkerAbsent
    /\ calls = <<>>
    /\ sent = <<>>
    /\ candidates = <<>>
    /\ scan_todo = <<>>
    /\ scan_count = 0
    /\ head_started = {}
    /\ PlanAbsent

\* The step changes the position of the foreground, whether the process
\* has ended and the position of the scan worker, and nothing else.
StartFrame ==
    UNCHANGED <<options, listVars, statVars, screen, result_lines,
                scan_cancel, clean_cancel, chan, workerVars, envVars,
                artifact_dir_names, candidates, scan_todo, scan_count,
                head_started, planVars>>

\* run_with_cli: canonicalize fails on the root.
StartInvalidRoot ==
    /\ fpc = "cli"
    /\ fpc' = "invalid root"
    /\ exited' = TRUE
    /\ UNCHANGED spc
    /\ StartFrame

\* run_with_cli: the root is valid and no artifact name is configured.
StartNoNames ==
    /\ fpc = "cli"
    /\ artifact_dir_names = {}
    /\ fpc' = "no artifact directory names"
    /\ exited' = TRUE
    /\ UNCHANGED spc
    /\ StartFrame

\* run_with_cli: the root is valid, names are configured: tui::run is called.
StartTui ==
    /\ fpc = "cli"
    /\ artifact_dir_names # {}
    /\ fpc' = "run"
    /\ UNCHANGED <<exited, spc>>
    /\ StartFrame

\* run: the channel, the flags, spawn_scan_worker, App::new.
StartSpawn ==
    /\ fpc = "run"
    /\ spc' = "start"
    /\ fpc' = "terminal"
    /\ UNCHANGED exited
    /\ StartFrame

\* run: TerminalGuard::enter succeeds and the loop begins.
TerminalEnter ==
    /\ fpc = "terminal"
    /\ fpc' = "drain"
    /\ UNCHANGED <<exited, spc>>
    /\ StartFrame

\* run: TerminalGuard::enter fails and `?` returns the error.
TerminalFails ==
    /\ fpc = "terminal"
    /\ fpc' = "failed to initialize terminal"
    /\ exited' = TRUE
    /\ UNCHANGED spc
    /\ StartFrame

StartNext ==
    \/ StartInvalidRoot
    \/ StartNoNames
    \/ StartTui
    \/ StartSpawn
    \/ TerminalEnter
    \/ TerminalFails
    \/ ScanStart
    \/ ScanTaskProcess
    \/ ScanTaskHead
    \/ ScanTaskSend
    \/ ScanFinish
    \/ ApplyScanEvent
    \/ DrawMain
    \/ PollTimeout
    \/ KeyInterrupt

SpecStart == StartInit /\ [][StartNext]_vars

\* ------------------------------------------- scan.rs: dir_stats on its own
\* Mutant: the timestamp merged last wins.
merge_mtime_last(self, other) == IF other = None THEN self ELSE other
\* DirStats::merge_mtime, on the timestamp of self
merge_mtime(self, other) ==
    IF other = None THEN self
    ELSE IF self # None /\ self[1] >= other[1] THEN self
    ELSE other
\* DirStats::merge
merge(self, other) ==
    DirStats(SaturatingAdd(self.size_bytes, other.size_bytes),
             merge_mtime(self.newest_mtime, other.newest_mtime))

\* Mutant: a symbolic link counts as the file it names.
LocalStatsFollowing(dir) ==
    LET all == dir.files \o dir.links
        local[k \in 0..Len(all)] ==
            IF k = 0 THEN DirStats(0, merge_mtime(None, dir.mtime))
            ELSE DirStats(SaturatingAdd(local[k - 1].size_bytes,
                                        all[k].size_bytes),
                          merge_mtime(local[k - 1].newest_mtime,
                                      all[k].newest_mtime))
    IN  local[Len(all)]
\* walk_dir_stats, the local DirStats of one directory: its own timestamp,
\* then each file in the order read_dir gives them.  The entries that are
\* symbolic links (dir.links) are passed over.
LocalStats(dir) ==
    LET local[k \in 0..Len(dir.files)] ==
            IF k = 0 THEN DirStats(0, merge_mtime(None, dir.mtime))
            ELSE DirStats(SaturatingAdd(local[k - 1].size_bytes,
                                        dir.files[k].size_bytes),
                          merge_mtime(local[k - 1].newest_mtime,
                                      dir.files[k].newest_mtime))
    IN  local[Len(dir.files)]

\* The file counts of the directories under the root, the root first; what
\* metadata gives for a file (len, modified) and for a directory (modified).
WalkShapes == {<<3>>, <<2, 1>>, <<1, 2>>, <<0, 2, 1>>, <<1, 1, 1>>}
FileChoices ==
    {DirStats(1, None), DirStats(MaxU64 - 1, Some(1)), DirStats(2, Some(2))}
DirTimes == {None, Some(3)}
\* The symbolic links of a directory, each with the stats of what it names:
\* none, or one that names a file newer than all the others.
LinkChoices == {<<>>, <<DirStats(2, Some(4))>>}
FilesBefore(shape, d) ==
    LET sum[k \in 0..Len(shape)] == IF k = 0 THEN 0 ELSE sum[k - 1] + shape[k]
    IN  sum[d - 1]
DirsOf(shape, times, files, links) ==
    [d \in 1..Len(shape) |->
        [mtime |-> times[d],
         links |-> links[d],
         files |-> SubSeq(files, FilesBefore(shape, d) + 1,
                          FilesBefore(shape, d) + shape[d])]]
WalkInputs ==
    UNION {{DirsOf(shape, times, files, links) :
               times \in [1..Len(shape) -> DirTimes],
               links \in [1..Len(shape) -> LinkChoices],
               files \in [1..FilesBefore(shape, Len(shape) + 1) -> FileChoices]} :
           shape \in WalkShapes}

\* dir_stats: the shared DirStats starts with the timestamp of the root and
\* one task per directory is spawned.
WalkInit ==
    /\ walk_dirs \in WalkInputs
    /\ walk_todo = DOMAIN walk_dirs
    /\ walk_global = DirStats(0, walk_dirs[1].mtime)
    /\ plan_in = <<>>
    /\ plan_out = None
    /\ options = [min_size_bytes |-> 0, dry_run |-> FALSE]
    /\ AppNew
    /\ screen = MainScreen
    /\ exited = FALSE
    /\ scan_cancel = FALSE
    /\ clean_cancel = FALSE
    /\ chan = <<>>
    /\ WorkerAbsent
    /\ fs = {}
    /\ calls = <<>>
    /\ sent = <<>>
    /\ ScanWorkerAbsent

\* walk_dir_stats: the task of a directory takes the lock and merges its
\* local DirStats; the tasks run in any order.
WalkDir ==
    /\ \E d \in walk_todo :
          /\ walk_global' = merge(walk_global, LocalStats(walk_dirs[d]))
          /\ walk_todo' = walk_todo \ {d}
    /\ UNCHANGED <<walk_dirs, plan_in, plan_out, appVars, scan_cancel,
                   clean_cancel, chan, workerVars, envVars, scanVars>>

WalkNext == WalkDir

SpecWalk == WalkInit /\ [][WalkNext]_vars

\* ------------------------------------------------- the list on its own
\* The scan and the Main screen with the keys that move the cursor, sort the
\* list or end the session: the session stays on the Main screen and the
\* selection is the one the scan gives.  Repository b has one artifact directory, repository
\* c two.
ListKeys == MainKeys \ {"Enter", "Space", "a", "n"}
KeyList ==
    /\ KeyPolled
    /\ screen.kind = "Main"
    /\ \E key \in ListKeys : handle_key_main(key)

ListTree == LargeTree \cup {<<"b">>, <<"b", ".git">>, <<"b", "target">>}

ListInit ==
    /\ options \in [min_size_bytes : {2}, dry_run : {FALSE}]
    /\ RunInit(ListTree, {"node_modules", "target"})

ListNext ==
    \/ ScanStart
    \/ ScanTaskProcess
    \/ ScanTaskHead
    \/ ScanTaskSend
    \/ ScanFinish
    \/ ApplyScanEvent
    \/ DrawMain
    \/ PollTimeout
    \/ KeyInterrupt
    \/ KeyList

SpecList == ListInit /\ [][ListNext]_vars

\* ------------------------------------ the list under any Artifact events
\* apply_scan_event takes any Artifact event, also one that names a path a
\* second time; the scan worker never sends one.  The records tried: two
\* artifacts of repository a and one of repository b, with any stats.
UpsertPaths == {<<"a", "node_modules">>, <<"a", "target">>, <<"b", "target">>}
UpsertRecords ==
    {ArtifactRecord(SubSeq(path, 1, 1), path, stats) :
        path \in UpsertPaths, stats \in StatChoices}

UpsertInit ==
    /\ options \in [min_size_bytes : {2}, dry_run : {FALSE}]
    /\ fs = {}
    /\ AppNew
    /\ screen = MainScreen
    /\ exited = FALSE
    /\ scan_cancel = FALSE
    /\ clean_cancel = FALSE
    /\ chan = <<>>
    /\ calls = <<>>
    /\ sent = <<>>
    /\ WorkerAbsent
    /\ ScanWorkerAbsent
    /\ PlanAbsent

\* An Artifact event arrives; one more than there are paths are tried, so
\* that a path comes twice.
ArtifactArrives ==
    /\ ~exited
    /\ artifacts_found + Len(chan) <= Cardinality(UpsertPaths)
    /\ \E record \in UpsertRecords : chan' = Append(chan, ScanArtifact(record))
    /\ UNCHANGED <<appVars, scan_cancel, clean_cancel, workerVars, envVars,
                   scanVars, planVars>>

UpsertNext ==
    \/ ArtifactArrives
    \/ ApplyScanEvent
    \/ DrawMain
    \/ PollTimeout
    \/ KeyInterrupt
    \/ KeyList

SpecUpsert == UpsertInit /\ [][UpsertNext]_vars

\* --------------------------------------------- candidate discovery alone
\* The paths a tree of the discovery may hold: artifact directories at the
\* root, in a repository, inside another, inside .git, behind a symbolic
\* link, in a directory that cannot be read and in a plain directory.
DiscoverPaths ==
    {<<"target">>, <<"a">>, <<"a", ".git">>, <<"a", ".git", "target">>,
     <<"a", "target">>, <<"a", "target", "node_modules">>,
     <<"a", "c">>, <<"a", "c", "target">>,
     <<"a", "a">>, <<"a", "a", "target">>,
     <<"a", "b">>, <<"a", "b", "node_modules">>}
\* Every directory of a tree lies in a directory of the tree.
DiscoverTrees ==
    {tree \in SUBSET DiscoverPaths :
        \A q \in tree : Len(q) > 1 => SubSeq(q, 1, Len(q) - 1) \in tree}
\* The names configured; --artifacts takes any name, .git too.
DiscoverNameSets == {{"target"}, {"node_modules", "target"}, {".git", "target"}}

DiscoverInit ==
    /\ options \in [min_size_bytes : {2}, dry_run : {FALSE}]
    /\ \E tree \in DiscoverTrees, names \in DiscoverNameSets : RunInit(tree, names)

\* scan_worker up to CandidatesTotal.
DiscoverNext == ScanStart

SpecDiscover == DiscoverInit /\ [][DiscoverNext]_vars

\* ------------------------------------- the progress events of many tasks
\* A scan with one candidate more than the period of CandidateProcessed: a
\* chain of directories b/b/.../b, each holding a directory target, none in
\* a repository, so that no task has a record to send.
Chain(n) == [k \in 1..n |-> "b"]
ProgressCandidates ==
    [i \in 1..(64 + 1) |-> Chain(64 + 2 - i) \o <<"target">>]
ProgressTree ==
    UNION {{Chain(n), Chain(n) \o <<"target">>} : n \in 1..Len(ProgressCandidates)}

\* The state scan_worker is in when it enters the parallel loop on that tree.
ProgressInit ==
    /\ options \in [min_size_bytes : {2}, dry_run : {FALSE}]
    /\ artifact_dir_names = {"target"}
    /\ fs = ProgressTree
    /\ AppNew
    /\ screen = MainScreen
    /\ exited = FALSE
    /\ scan_cancel = FALSE
    /\ clean_cancel = FALSE
    /\ chan = <<ScanCandidatesTotal(Len(ProgressCandidates))>>
    /\ WorkerAbsent
    /\ calls = <<>>
    /\ sent = <<>>
    /\ spc = "each"
    /\ candidates = ProgressCandidates
    /\ scan_todo = [i \in 1..Len(ProgressCandidates) |-> TaskNew]
    /\ scan_count = 0
    /\ head_started = {}
    /\ PlanAbsent

\* A task that has counted itself and has its CandidateProcessed to send.
TaskCounted(processed_count) ==
    [at |-> "counted", processed_count |-> processed_count]

\* A task finds no record for its candidate and counts itself:
\* `processed.fetch_add(1, ..) + 1`.  It ends there unless its count is due.
\* The tasks differ in nothing here: the first not yet run is taken.
ProgressTaskCount ==
    /\ ScanRunning
    /\ ~scan_cancel
    /\ \E i \in DOMAIN scan_todo :
          /\ scan_todo[i] = TaskNew
          /\ \A j \in DOMAIN scan_todo : scan_todo[j] = TaskNew => i <= j
          /\ process_candidate(fs, candidates[i], None, None) = None
          /\ scan_count' = scan_count + 1
          /\ scan_todo' =
                IF scan_count + 1 = Len(candidates) \/ (scan_count + 1) % 64 = 0
                THEN [scan_todo EXCEPT ![i] = TaskCounted(scan_count + 1)]
                ELSE Without(scan_todo, i)
    /\ UNCHANGED <<spc, artifact_dir_names, candidates, head_started, chan,
                   appVars, scan_cancel, clean_cancel, workerVars, envVars,
                   planVars>>

\* A task whose count is due sends CandidateProcessed, in a statement of its
\* own after the fetch_add: other tasks count and send in between.
ProgressTaskSend ==
    /\ ScanRunning
    /\ \E i \in DOMAIN scan_todo :
          /\ scan_todo[i].at = "counted"
          /\ chan' = Append(chan, ScanCandidateProcessed(scan_todo[i].processed_count))
          /\ scan_todo' = Without(scan_todo, i)
    /\ UNCHANGED <<spc, artifact_dir_names, candidates, scan_count, head_started,
                   appVars, scan_cancel, clean_cancel, workerVars, envVars,
                   planVars>>

ProgressNext ==
    \/ ProgressTaskCount
    \/ ProgressTaskSend
    \/ ScanFinish
    \/ ApplyScanEvent
    \/ DrawMain
    \/ PollTimeout
    \/ KeyInterrupt

SpecProgress == ProgressInit /\ [][ProgressNext]_vars

\* ------------------------------------------------- claims on the executor
\* The last component of a path.
LastName(path) == path[Len(path)]
NamedGit(t) == Len(t.path) > 0 /\ LastName(t.path) = ".git"
\* This step is the iteration of the loop that handles target number windex'.
HandlesTarget == windex' = windex + 1
\* The calls of this step, in order.
NewCalls == SubSeq(calls', Len(calls) + 1, Len(calls'))
\* The Progress events among the events sent so far.
ProgressSent == SelectSeq(sent, LAMBDA e : e.type = "Progress")
CountersKept(s1, s2) ==
    /\ s2.deleted_paths = s1.deleted_paths
    /\ s2.deleted_bytes = s1.deleted_bytes

C1_NoRemoveCall ==
    \A j \in 1..Len(calls) :
        calls[j].op = "remove_dir_all" => ~NamedGit(targets[calls[j].index])
C1_Step ==
    (HandlesTarget /\ NamedGit(targets[windex'])) =>
        /\ fs' = fs
        /\ calls' = calls
        /\ summary'.skipped_paths = summary.skipped_paths + 1
        /\ Len(summary'.errors) = Len(summary.errors) + 1
        /\ SubSeq(summary'.errors, 1, Len(summary.errors)) = summary.errors
        /\ summary'.errors[Len(summary'.errors)].path = targets[windex'].path
        /\ CountersKept(summary, summary')
\* C1: a target whose final path component is .git is never handed to
\* remove_dir_all, in dry-run or not and whatever git would answer: handling it
\* leaves the file system alone, makes no call, counts one skipped path and
\* records one error for its path.
C1_GitDirRefused == [](C1_NoRemoveCall) /\ [][C1_Step]_vars
\* A .git target was handled outside dry-run while its directory exists.
C1_Witness ==
    /\ ~options.dry_run
    /\ windex >= 1
    /\ NamedGit(targets[1])
    /\ targets[1].path \in fs
    /\ summary.skipped_paths = 1

C2_RemoveOnlyAfterTrue ==
    \A j \in 1..Len(calls) :
        calls[j].op = "remove_dir_all" =>
            /\ j > 1
            /\ calls[j - 1] = IgnoreCall(calls[j].index, "true")
C2_Step ==
    HandlesTarget =>
        /\ \A c \in {NewCalls[j] : j \in 1..Len(NewCalls)} : c.index = windex'
        /\ (NewCalls = <<IgnoreCall(windex', "false")>> =>
              /\ summary'.skipped_paths = summary.skipped_paths + 1
              /\ summary'.errors = summary.errors
              /\ CountersKept(summary, summary')
              /\ fs' = fs)
        /\ (NewCalls = <<IgnoreCall(windex', "error")>> =>
              /\ summary'.skipped_paths = summary.skipped_paths + 1
              /\ Len(summary'.errors) = Len(summary.errors) + 1
              /\ SubSeq(summary'.errors, 1, Len(summary.errors)) = summary.errors
              /\ summary'.errors[Len(summary'.errors)].path = targets[windex'].path
              /\ CountersKept(summary, summary')
              /\ fs' = fs)
        /\ (fs' # fs =>
              NewCalls = <<IgnoreCall(windex', "true"), RemoveCall(windex', "ok")>>)
\* C2: the executor asks git again for every target it is about to remove: an
\* answer of false skips the target with no error and no removal, a failed
\* check skips it with one error, and remove_dir_all is called only right
\* after the check of that same target answered true.
C2_RecheckBeforeRemoval ==
    [](C2_RemoveOnlyAfterTrue) /\ [][C2_Step]_vars /\ [][fs' # fs => HandlesTarget]_vars
\* A not-ignored target was skipped silently, then an ignored one was removed.
C2_Witness ==
    /\ Len(calls) = 3
    /\ calls[1] = IgnoreCall(1, "false")
    /\ calls[3] = RemoveCall(2, "ok")
    /\ summary.skipped_paths = 1
    /\ summary.errors = <<>>
    /\ summary.deleted_paths = 1


C4_Inv ==
    options.dry_run =>
        /\ \A j \in 1..Len(calls) : calls[j].op # "remove_dir_all"
        /\ summary.deleted_paths = 0
        /\ summary.deleted_bytes = 0
        /\ \A j \in 1..Len(sent) :
              IF sent[j].type = "Progress"
              THEN /\ sent[j].progress.deleted_paths = 0
                   /\ sent[j].progress.deleted_bytes = 0
              ELSE /\ sent[j].summary.deleted_paths = 0
                   /\ sent[j].summary.deleted_bytes = 0
        /\ (wpc # "loop" /\ ~clean_cancel) =>
              /\ Len(ProgressSent) = Len(targets)
              /\ Len(targets) > 0 =>
                    ProgressSent[Len(targets)].progress.processed = Len(targets)
\* C4: in dry-run the executor changes nothing on disk and never calls
\* remove_dir_all; every snapshot and the summary keep deleted_paths = 0 and
\* deleted_bytes = 0; and a run of N targets that is not cancelled emits N
\* snapshots, the last with processed = N.
C4_DryRunDeletesNothing == [](C4_Inv) /\ [][options.dry_run => fs' = fs]_vars
\* A dry run of three targets ended, one of them ignored and present on disk.
C4_Witness ==
    /\ options.dry_run
    /\ wpc = "finished"
    /\ ~clean_cancel
    /\ Len(targets) = 3
    /\ Len(ProgressSent) = 3
    /\ \E j \in 1..Len(calls) :
          calls[j].answer = "true" /\ targets[calls[j].index].path \in fs

\* Nothing of the executor's work moves in this step.
NothingProcessed ==
    /\ windex' = windex
    /\ summary' = summary
    /\ fs' = fs
    /\ calls' = calls
    /\ SelectSeq(sent', LAMBDA e : e.type = "Progress") = ProgressSent
C5_Inv ==
    wpc # "loop" =>
        /\ Len(ProgressSent) = windex
        /\ \A j \in 1..Len(calls) : calls[j].index <= windex
        /\ summary.deleted_paths + summary.skipped_paths <= windex
        /\ Len(summary.errors) <= windex
\* C5: the flag is read before each target: a target is never handled from a
\* state in which the flag is set, and once the loop is left (the flag seen
\* before target i, or the list exhausted) no target at index >= i is removed,
\* counted, reported as an error or given a snapshot.
C5_CancelStopsExecutor ==
    /\ [](C5_Inv)
    /\ [][(wpc = "loop" /\ clean_cancel) => NothingProcessed]_vars
    /\ [][wpc # "loop" => NothingProcessed /\ wpc' # "loop"]_vars
\* The flag was seen before the second of three targets, present on disk.
C5_Witness ==
    /\ wpc = "finished"
    /\ Len(targets) = 3
    /\ windex = 1
    /\ ~options.dry_run
    /\ targets[2].path \in fs
    /\ ~NamedGit(targets[2])

FinishedSent == SelectSeq(sent, LAMBDA e : e.type = "Finished")
C6_Inv ==
    /\ Len(FinishedSent) = (IF wpc = "finished" THEN 1 ELSE 0)
    /\ wpc = "finished" =>
          /\ sent[Len(sent)].type = "Finished"
          /\ sent[Len(sent)].canceled = (windex < Len(targets))
          /\ windex < Len(targets) => clean_cancel
          /\ \A j \in 1..Len(calls) : calls[j].index <= windex
          /\ sent[Len(sent)].summary = summary
\* C6: the terminal event says canceled exactly when the loop was left with
\* targets remaining (k < N handled), and then none of the remaining N - k
\* targets was checked or removed; when all N were handled it says
\* canceled = false, whether or not a cancel was requested later.
C6_CanceledFlag ==
    /\ [](C6_Inv)
    /\ [][wpc = "finished" => fs' = fs /\ calls' = calls]_vars
\* Two of three targets were handled before the cancel was seen.
C6_Witness ==
    /\ wpc = "finished"
    /\ Len(targets) = 3
    /\ windex = 2
    /\ sent[Len(sent)].canceled
    /\ targets[3].path \in fs
\* All targets were handled, the cancel came later: canceled = false.
C6_WitnessLate ==
    /\ wpc = "finished"
    /\ Len(targets) = 2
    /\ windex = 2
    /\ clean_cancel
    /\ ~sent[Len(sent)].canceled

C7_Inv ==
    /\ Len(ProgressSent) = windex
    /\ \A i \in 1..Len(sent) :
          (i <= windex) = (sent[i].type = "Progress")
    /\ \A i \in 1..windex :
          /\ sent[i].progress.processed = i
          /\ sent[i].progress.total = Len(targets)
          /\ sent[i].current = targets[i]
    /\ Len(chan) <= Len(sent)
    /\ chan = SubSeq(sent, Len(sent) - Len(chan) + 1, Len(sent))
    /\ screen.kind = "Cleaning" =>
          /\ screen.processed = Len(sent) - Len(chan)
          /\ screen.total = Len(targets)
C7_Step ==
    /\ (screen.kind = "Cleaning" /\ screen'.kind = "Cleaning") =>
          /\ screen'.processed >= screen.processed
          /\ screen'.processed <= screen.processed + 1
    /\ HandlesTarget => Len(sent') = Len(sent) + 1
    /\ Len(sent') > Len(sent) => (HandlesTarget \/ wpc' = "finished")
\* C7: each handled target gives exactly one snapshot, whatever its outcome;
\* the snapshots carry processed = 1, 2, ..., k and total = the plan length; the
\* channel delivers them in that order, and the processed count of the
\* Cleaning screen goes up one by one and never down.
C7_OneSnapshotPerTarget == [](C7_Inv) /\ [][C7_Step]_vars
\* Three targets with three different outcomes, all shown on the screen.
C7_Witness ==
    /\ screen.kind = "Cleaning"
    /\ screen.processed = 3
    /\ screen.deleted_paths = 1
    /\ screen.skipped_paths = 1
    /\ screen.error_count = 1

C8_Step ==
    (HandlesTarget /\ Len(NewCalls) = 2) =>
        LET t == targets[windex']
            ans == NewCalls[2].answer
        IN  /\ NewCalls[2].op = "remove_dir_all"
            /\ wpc' = "loop"
            /\ ans = "ok" =>
                  /\ summary'.deleted_paths = summary.deleted_paths + 1
                  /\ summary'.deleted_bytes =
                        (IF summary.deleted_bytes + t.planned_bytes > MaxU64
                         THEN MaxU64
                         ELSE summary.deleted_bytes + t.planned_bytes)
                  /\ summary'.skipped_paths = summary.skipped_paths
                  /\ summary'.errors = summary.errors
            /\ ans = "not_found" =>
                  /\ summary'.skipped_paths = summary.skipped_paths + 1
                  /\ summary'.errors = summary.errors
                  /\ CountersKept(summary, summary')
            /\ ans = "error" =>
                  /\ Len(summary'.errors) = Len(summary.errors) + 1
                  /\ summary'.errors[Len(summary'.errors)].path = t.path
                  /\ summary'.skipped_paths = summary.skipped_paths
                  /\ CountersKept(summary, summary')
\* C8: at the removal step, success adds one deleted path and the planned
\* bytes of the target (saturating at the u64 maximum); an absent path adds
\* one skipped path and no error; any other failure adds one error and leaves
\* the deleted and skipped counts; in each case the loop goes on.
C8_RemovalOutcomes == [][C8_Step]_vars
\* Two removals whose planned bytes add up beyond the u64 maximum.
C8_Witness ==
    /\ summary.deleted_paths = 2
    /\ summary.deleted_bytes = MaxU64
    /\ targets[1].planned_bytes + targets[2].planned_bytes > MaxU64
    /\ windex = 2


ShownPlan(sc) == IF sc.kind = "Confirm" THEN sc.targets ELSE <<>>

\* The targets the selection asks for: one for each artifact of each item
\* that is selected and whose report reaches the size filter.
WantedTargets ==
    UNION {{DeleteTarget(items[i].report.repo_root,
                         items[i].report.artifacts[j].path,
                         items[i].report.artifacts[j].stats.size_bytes) :
                j \in 1..Len(items[i].report.artifacts)} :
           i \in {i \in 1..Len(items) :
                    /\ items[i].selected
                    /\ items[i].report.total_size_bytes >= options.min_size_bytes}}

\* C9: Enter in Main plans exactly the artifacts of the items that are both
\* selected and visible, one target per artifact path, in strictly ascending
\* path order, each with the size of its artifact as planned bytes; an empty
\* plan leads to the Result screen.
C9_Step ==
    (screen.kind = "Main" /\ screen'.kind \in {"Confirm", "Result"}) =>
        LET planned == ShownPlan(screen')
        IN  /\ {planned[k] : k \in 1..Len(planned)} = WantedTargets
            /\ Len(planned) = Cardinality({t.path : t \in WantedTargets})
            /\ \A k \in 1..(Len(planned) - 1) :
                  PathCmp(planned[k].path, planned[k + 1].path) = -1
            /\ (screen'.kind = "Result") = (WantedTargets = {})
C9_PlanOfSelectedVisible == [][C9_Step]_vars
\* A plan of two targets is on the Confirm screen; the report lists them
\* larger first, the plan by path; a selected repository is hidden and an
\* artifact of it is not planned.
C9_Witness ==
    /\ screen.kind = "Confirm"
    /\ Len(screen.targets) = 2
    /\ \E i \in 1..Len(items) :
          /\ Len(items[i].report.artifacts) = 2
          /\ items[i].report.artifacts[1].path = screen.targets[2].path
    /\ \E i \in 1..Len(items) :
          /\ items[i].selected
          /\ ~is_visible(items[i].report)
          /\ Len(items[i].report.artifacts) = 1

\* C3: no directory named .git becomes a candidate, so none is an artifact
\* of a report and none is a target of a plan, on the Confirm screen or
\* handed to the deletion worker, even with .git among the artifact names.
C3_NoGitTarget ==
    /\ \A i \in 1..Len(candidates) : FileName(candidates[i]) # Some(".git")
    /\ \A i \in 1..Len(items) :
          \A j \in 1..Len(items[i].report.artifacts) :
              FileName(items[i].report.artifacts[j].path) # Some(".git")
    /\ \A k \in 1..Len(ShownPlan(screen)) :
          FileName(ShownPlan(screen)[k].path) # Some(".git")
    /\ \A k \in 1..Len(targets) : FileName(targets[k].path) # Some(".git")
\* .git is a configured artifact name, the repositories hold .git
\* directories, and a plan of the scan's artifacts went to the worker.
C3_Witness ==
    /\ ".git" \in artifact_dir_names
    /\ <<"a", ".git">> \in fs
    /\ spc = "finished"
    /\ Len(candidates) = 3
    /\ screen.kind = "Cleaning"
    /\ Len(targets) = 3

\* ------------------------------------------------ claims on the screens
\* The screen changes a session allows.
ScreenChanges ==
    {<<"Main", "Confirm">>, <<"Main", "Result">>, <<"Confirm", "Main">>,
     <<"Confirm", "Cleaning">>, <<"Cleaning", "Result">>}

\* C11: the screen starts at Main and changes only by Main -> Confirm,
\* Main -> Result (with an empty plan), Confirm -> Main, Confirm -> Cleaning
\* and Cleaning -> Result; a Result screen never changes, and a key read on
\* it ends the session.
C11_Step ==
    /\ screen'.kind # screen.kind => <<screen.kind, screen'.kind>> \in ScreenChanges
    /\ (screen.kind = "Main" /\ screen'.kind = "Result") => WantedTargets = {}
    /\ screen.kind = "Result" => screen' = screen
    /\ KeyResult => exited'
C11_ScreenMachine == screen.kind = "Main" /\ [][C11_Step]_vars
\* A deletion ran to its end, its Finished event brought the Result screen,
\* and a key ended the session there.
C11_Witness ==
    /\ screen.kind = "Result"
    /\ wpc = "finished"
    /\ Len(targets) > 0
    /\ exited

\* The sum of the planned bytes of a list of targets, as a number.
TotalBytes(ts) ==
    LET sum[k \in 0..Len(ts)] == IF k = 0 THEN 0 ELSE sum[k - 1] + ts[k].planned_bytes
    IN  sum[Len(ts)]

\* C12: Enter in Main with nothing to plan shows the Result screen with the
\* message, starts no deletion worker and writes no cancellation flag; with
\* something to plan it shows the Confirm screen with the plan, its number
\* of targets and the sum of their planned bytes, and starts no worker.
C12_Step ==
    (KeyPolled /\ screen.kind = "Main" /\ handle_key_main("Enter")) =>
        /\ UNCHANGED <<workerVars, scan_cancel, clean_cancel, exited, chan>>
        /\ IF WantedTargets = {}
           THEN /\ screen' = [kind |-> "Result"]
                /\ result_lines' = <<"Nothing to delete for current selection.">>
           ELSE /\ screen'.kind = "Confirm"
                /\ {screen'.targets[k] : k \in 1..Len(screen'.targets)} = WantedTargets
                /\ Len(screen'.targets) = Cardinality(WantedTargets)
                /\ screen'.planned_dirs = Cardinality(WantedTargets)
                /\ screen'.planned_bytes = TotalBytes(screen'.targets)
C12_EnterInMain == [][C12_Step]_vars
\* Enter found nothing to plan although the list holds a repository, and
\* the Result screen shows the message with no worker started.
C12_Witness ==
    /\ screen.kind = "Result"
    /\ result_lines = <<"Nothing to delete for current selection.">>
    /\ Len(items) > 0
    /\ wpc = "idle"
    /\ ~scan_cancel
\* Enter found two targets of four bytes in all and shows them for
\* confirmation.
C12_WitnessConfirm ==
    /\ screen.kind = "Confirm"
    /\ screen.planned_dirs = 2
    /\ screen.planned_bytes = 4
    /\ wpc = "idle"

\* C13: in Confirm, y and Y set the scan flag, clear the deletion flag,
\* start the one deletion worker on the targets of the screen and show
\* Cleaning with nothing processed, the number of targets as total and the
\* first target as current; n, N, q and Esc bring Main back with no worker
\* started and no flag written; any other key changes nothing.
C13_Step ==
    \A key \in ConfirmKeys :
        (KeyPolled /\ screen.kind = "Confirm" /\ handle_key_confirm(key)) =>
            IF key \in {"y", "Y"}
            THEN /\ scan_cancel' /\ ~clean_cancel'
                 /\ wpc = "idle" /\ wpc' = "loop" /\ windex' = 0
                 /\ targets' = screen.targets
                 /\ screen'.kind = "Cleaning"
                 /\ screen'.processed = 0
                 /\ screen'.total = Len(screen.targets)
                 /\ screen'.current = Some(CurrentLabel(screen.targets[1]))
                 /\ ~exited'
            ELSE IF key \in {"n", "N", "q", "Esc"}
            THEN /\ screen' = [kind |-> "Main"]
                 /\ UNCHANGED <<workerVars, scan_cancel, clean_cancel, exited>>
            ELSE UNCHANGED <<options, listVars, statVars, screen, result_lines,
                             exited, scan_cancel, clean_cancel, chan, workerVars,
                             envVars, scanVars>>
C13_ConfirmKeys == [][C13_Step]_vars
\* y was pressed while the scan was still running: the scan flag is set,
\* the worker stands before its first target, the screen is Cleaning.
C13_Witness ==
    /\ screen.kind = "Cleaning"
    /\ screen.processed = 0
    /\ scan_cancel
    /\ ~clean_cancel
    /\ wpc = "loop"
    /\ windex = 0
    /\ Len(targets) > 0
    /\ spc = "each"

\* A cancel request and nothing else: the deletion flag and the marker of
\* the screen are set.
OnlyCancelRequested ==
    /\ clean_cancel'
    /\ screen' = [screen EXCEPT !.cancel_requested = TRUE]
    /\ UNCHANGED <<options, listVars, statVars, result_lines, exited,
                   scan_cancel, chan, workerVars, envVars, scanVars>>

\* C14: while the screen is Cleaning no step ends the session; q, Esc and
\* Ctrl+C are cancel requests and nothing more, any other key changes
\* nothing, and the screen leaves Cleaning only for Result, in the step that
\* takes the worker's Finished event off the channel.
C14_Step ==
    /\ screen.kind = "Cleaning" => ~exited'
    /\ \A key \in CleaningKeys :
          (KeyPolled /\ screen.kind = "Cleaning" /\ handle_key_cleaning(key)) =>
              IF key \in {"q", "Esc"} THEN OnlyCancelRequested
              ELSE UNCHANGED <<options, listVars, statVars, screen, result_lines,
                               exited, scan_cancel, clean_cancel, chan,
                               workerVars, envVars, scanVars>>
    /\ (KeyInterrupt /\ screen.kind = "Cleaning") => OnlyCancelRequested
    /\ (screen.kind = "Cleaning" /\ screen'.kind # "Cleaning") =>
          /\ chan # <<>>
          /\ Head(chan).app = "Clean" /\ Head(chan).type = "Finished"
          /\ chan' = Tail(chan)
          /\ screen'.kind = "Result"
C14_CleaningKeys == [][C14_Step]_vars
\* A cancel was requested during the deletion, the worker has ended, its
\* Finished event is still on the channel and the screen is still Cleaning.
C14_Witness ==
    /\ screen.kind = "Cleaning"
    /\ screen.cancel_requested
    /\ clean_cancel
    /\ wpc = "finished"
    /\ chan # <<>>
    /\ ~exited

\* C15: Ctrl+C in Main, Confirm or Result ends the session at once, with the
\* screen as it was and no deletion worker started; in Cleaning it does not
\* end the session and requests the cancel.
C15_Step ==
    KeyInterrupt =>
        IF screen.kind = "Cleaning"
        THEN /\ ~exited'
             /\ clean_cancel'
             /\ screen'.kind = "Cleaning" /\ screen'.cancel_requested
        ELSE /\ exited'
             /\ screen' = screen
             /\ UNCHANGED workerVars
C15_Interrupt == [][C15_Step]_vars
\* Ctrl+C ended the session on the Confirm screen: the plan was never run.
C15_Witness ==
    /\ exited
    /\ screen.kind = "Confirm"
    /\ wpc = "idle"
\* Ctrl+C was pressed during a deletion, which went on to its Result screen.
C15_WitnessCleaning ==
    /\ ~exited
    /\ screen.kind = "Result"
    /\ clean_cancel
    /\ wpc = "finished"

\* C16: a session starts at most one deletion worker: while the screen is
\* Main or Confirm none has been started and no Clean event waits, a worker
\* is started only when none was started before, a started worker is never
\* started anew, and no Clean event is consumed on Main or Confirm.
C16_Inv ==
    screen.kind \in {"Main", "Confirm"} =>
        /\ wpc = "idle"
        /\ \A i \in 1..Len(chan) : chan[i].app # "Clean"
C16_Step ==
    /\ wpc # "idle" =>
          /\ wpc' # "idle"
          /\ targets' = targets
          /\ windex' >= windex
    /\ (chan # <<>> /\ chan' = Tail(chan) /\ Head(chan).app = "Clean") =>
          screen.kind \notin {"Main", "Confirm"}
C16_OneWorker == [](C16_Inv) /\ [][C16_Step]_vars
\* The one worker of the session has ended and all its events are consumed.
C16_Witness ==
    /\ wpc = "finished"
    /\ Len(sent) > 1
    /\ chan = <<>>
    /\ screen.kind = "Result"
    /\ ~exited

\* The records the list shows, and those on their way to it.
ListedRecords ==
    UNION {{items[k].report.artifacts[i] :
               i \in 1..Len(items[k].report.artifacts)} : k \in 1..Len(items)}
SentRecords ==
    {chan[i].record : i \in {j \in 1..Len(chan) :
                               chan[j].app = "Scan" /\ chan[j].type = "Artifact"}}
\* The record names a candidate of the scan and the repository root found
\* for it.
FromCandidate(record) ==
    \E i \in 1..Len(candidates) :
        /\ candidates[i] = record.path
        /\ find_git_root(fs, candidates[i]) = Some(record.repo_root)
\* The task's candidate has a repository and git answered that it is ignored.
Confirmed(task) == task.ignored = Some("true")

\* C17: a record comes only from a candidate with a repository root for
\* which git answered "ignored": every task holding a record was confirmed,
\* every record sent or listed names a candidate and its root, a task sends
\* an Artifact event exactly when it holds a record, and the list gains no
\* record but the one of the Artifact event consumed.  A candidate with no
\* root, a not-ignored answer or a git error leaves its task without a
\* record, and the scan goes on: the task is counted like any other and the
\* scan finishes with every candidate counted.
C17_Inv ==
    /\ \A i \in DOMAIN scan_todo :
          scan_todo[i].at = "send" =>
             /\ scan_todo[i].record # None =>
                   /\ Confirmed(scan_todo[i])
                   /\ FromCandidate(scan_todo[i].record[1])
             /\ ~Confirmed(scan_todo[i]) => scan_todo[i].record = None
    /\ \A record \in ListedRecords \cup SentRecords : FromCandidate(record)
    /\ spc = "finished" => scan_count = Len(candidates)
C17_Step ==
    /\ \A i \in DOMAIN scan_todo :
          (scan_todo[i].at = "new" /\ (i \notin DOMAIN scan_todo' \/ scan_todo'[i].at = "send")) =>
             /\ spc' = "each"
             /\ i \in DOMAIN scan_todo'
             /\ LET root == find_git_root(fs, candidates[i])
                IN  /\ root = None => scan_todo'[i].ignored = None
                    /\ root # None => scan_todo'[i].ignored # None
    /\ \A i \in DOMAIN scan_todo :
          (scan_todo[i].at = "send" /\ i \notin DOMAIN scan_todo') =>
             /\ scan_count' = scan_count + 1
             /\ spc' = "each"
             /\ SentRecords' \ SentRecords \subseteq
                   {scan_todo[i].record[k] : k \in DOMAIN scan_todo[i].record}
             /\ scan_todo[i].record # None =>
                   \E k \in Len(chan) + 1..Len(chan') :
                       chan'[k] = ScanArtifact(scan_todo[i].record[1])
    /\ scan_todo' = scan_todo => SentRecords' \subseteq SentRecords
    /\ ListedRecords' \subseteq ListedRecords \cup
          (IF chan # <<>> /\ chan' = Tail(chan) /\ Head(chan).app = "Scan"
              /\ Head(chan).type = "Artifact"
           THEN {Head(chan).record} ELSE {})
C17_ConfirmedRecords == [](C17_Inv) /\ [][C17_Step]_vars
\* The scan has finished: the candidate outside every repository, one git
\* called not ignored or failed on, and one git called ignored were all
\* counted, and only the last is listed.
C17_Witness ==
    /\ spc = "finished"
    /\ chan = <<>>
    /\ scan_count = 3
    /\ Len(items) = 1
    /\ Len(items[1].report.artifacts) = 1
    /\ ~exited

\* The sum of the sizes of the artifacts, held at the largest u64, and the
\* latest of their timestamps.
SizeSum(arts) ==
    LET sum[k \in 0..Len(arts)] ==
            IF k = 0 THEN 0 ELSE sum[k - 1] + arts[k].stats.size_bytes
    IN  Min(sum[Len(arts)], MaxU64)
Timestamps(arts) ==
    {arts[i].stats.newest_mtime[1] :
        i \in {j \in 1..Len(arts) : arts[j].stats.newest_mtime # None}}
NewestOf(arts) ==
    IF Timestamps(arts) = {} THEN None
    ELSE Some(CHOOSE t \in Timestamps(arts) : \A u \in Timestamps(arts) : u <= t)

\* C18: in every state of the session, and so after every scan event
\* consumed, the report of each item has the saturating sum of the sizes of
\* its artifacts as total_size_bytes and the latest timestamp of its
\* artifacts as newest_mtime, absent only when no artifact has one.
C18_TotalsConsistent ==
    \A k \in 1..Len(items) :
        /\ items[k].report.total_size_bytes = SizeSum(items[k].report.artifacts)
        /\ items[k].report.newest_mtime = NewestOf(items[k].report.artifacts)
\* A repository with two artifacts whose sizes pass the largest u64, the
\* second consumed being the fresher one.
C18_Witness ==
    /\ Len(items) = 1
    /\ Len(items[1].report.artifacts) = 2
    /\ items[1].report.artifacts[1].stats.size_bytes
          + items[1].report.artifacts[2].stats.size_bytes > MaxU64
    /\ items[1].report.total_size_bytes = MaxU64
    /\ items[1].report.artifacts[1].stats.newest_mtime
          # items[1].report.artifacts[2].stats.newest_mtime
    /\ chan = <<>>

\* The newest timestamp of the report is at least AUTO_SELECT_DAYS days old.
StaleReport(report) ==
    /\ report.newest_mtime # None
    /\ report.newest_mtime[1] <= Now
    /\ Now - report.newest_mtime[1] >= AUTO_SELECT_DAYS * SecondsPerDay
\* The item is in Auto mode and its report has a timestamp.
AutoDated(item) ==
    item.selection_mode = "Auto" /\ item.report.newest_mtime # None

\* C19: in every state of the session, and so after every event consumed, an
\* item in Auto mode whose report has a newest_mtime is selected exactly when
\* it is visible and that timestamp, the latest over its artifacts, is at
\* least 180 days old; and a selected item in Auto mode that gets a fresher
\* artifact, its newest timestamp now younger than 180 days, is unselected.
C19_Inv ==
    \A k \in 1..Len(items) :
        AutoDated(items[k]) =>
            /\ items[k].report.newest_mtime = NewestOf(items[k].report.artifacts)
            /\ items[k].selected <=>
                  (is_visible(items[k].report) /\ StaleReport(items[k].report))
C19_Step ==
    \A k \in 1..Len(items), n \in 1..Len(items') :
        (/\ items'[n].report.repo_root = items[k].report.repo_root
         /\ items[k].selected
         /\ items[k].selection_mode = "Auto"
         /\ items'[n].selection_mode = "Auto"
         /\ Len(items'[n].report.artifacts) > Len(items[k].report.artifacts)
         /\ ~StaleReport(items'[n].report))
        => ~items'[n].selected
C19_AutoSelection == [](C19_Inv) /\ [][C19_Step]_vars
\* A visible repository in Auto mode with one artifact 180 days old and one
\* younger, not selected.
C19_Witness ==
    \E k \in 1..Len(items) :
        /\ items[k].selection_mode = "Auto"
        /\ is_visible(items[k].report)
        /\ Len(items[k].report.artifacts) = 2
        /\ \E i, j \in 1..2 :
              /\ StaleReport([newest_mtime |->
                    items[k].report.artifacts[i].stats.newest_mtime])
              /\ items[k].report.artifacts[j].stats.newest_mtime # None
              /\ ~StaleReport([newest_mtime |->
                    items[k].report.artifacts[j].stats.newest_mtime])
        /\ ~items[k].selected
\* A visible repository in Auto mode whose artifacts are all 180 days old,
\* selected.
C19_WitnessSelected ==
    \E k \in 1..Len(items) :
        /\ items[k].selection_mode = "Auto"
        /\ is_visible(items[k].report)
        /\ Len(items[k].report.artifacts) = 2
        /\ StaleReport(items[k].report)
        /\ items[k].selected

\* The item is visible, in Auto mode, and no artifact of it has a timestamp.
AutoUndated(item) ==
    /\ item.selection_mode = "Auto"
    /\ is_visible(item.report)
    /\ item.report.newest_mtime = None

\* C20: a visible repository in Auto mode whose newest_mtime is absent is
\* auto-selected, as one of infinite age would be.  should_auto_select
\* returns false when repo_age_days is None, so the statement fails in the
\* state C20_Witness describes.
C20_AbsentIsSelected ==
    \A k \in 1..Len(items) : AutoUndated(items[k]) => items[k].selected
\* The scan has finished with a visible repository in Auto mode whose
\* artifacts have no timestamp: it is not selected.
C20_Witness ==
    /\ spc = "finished"
    /\ chan = <<>>
    /\ \E k \in 1..Len(items) :
          /\ AutoUndated(items[k])
          /\ \A i \in 1..Len(items[k].report.artifacts) :
                items[k].report.artifacts[i].stats.newest_mtime = None
          /\ ~items[k].selected

\* The key pressed on the Main screen is handled as `key`.
MainKey(key) == KeyPolled /\ screen.kind = "Main" /\ handle_key_main(key)
\* The roots of the repositories listed.
Roots(its) == {its[i].report.repo_root : i \in 1..Len(its)}

\* C21: an item in Manual mode stays listed and in Manual mode, and its
\* selected flag changes only in a step that handles Space, a or n on the
\* Main screen: no scan event changes it.
C21_Step ==
    \A k \in 1..Len(items) :
        items[k].selection_mode = "Manual" =>
            \E n \in 1..Len(items') :
                /\ items'[n].report.repo_root = items[k].report.repo_root
                /\ items'[n].selection_mode = "Manual"
                /\ items'[n].selected # items[k].selected =>
                      \E key \in {"Space", "a", "n"} : MainKey(key)
C21_ManualStays == [][C21_Step]_vars
\* The scan has finished and an item in Manual mode with two artifacts has
\* a selected flag the rule of the Auto mode would not give it.
C21_Witness ==
    /\ spc = "finished"
    /\ chan = <<>>
    /\ \E k \in 1..Len(items) :
          /\ items[k].selection_mode = "Manual"
          /\ Len(items[k].report.artifacts) = 2
          /\ items[k].selected # should_auto_select(items[k].report)

\* C22: a and n set every item, hidden ones included, to Manual mode with
\* selected true (a) or false (n) and make that value the default of the
\* session; the default, once set, changes only by a or n; an item pushed
\* while a default is set is in Manual mode with the default as its selected
\* flag; Space changes the one item under the cursor, which turns Manual
\* with its flag negated, and leaves the default as it is.
C22_Step ==
    /\ \A key \in {"a", "n"} :
          MainKey(key) =>
             /\ new_repo_default_selected' = Some(key = "a")
             /\ Len(items') = Len(items)
             /\ \A k \in 1..Len(items) :
                   items'[k] = [items[k] EXCEPT !.selected = (key = "a"),
                                                !.selection_mode = "Manual"]
    /\ new_repo_default_selected' # new_repo_default_selected =>
          \E key \in {"a", "n"} : MainKey(key)
    /\ \A n \in 1..Len(items') :
          (/\ items'[n].report.repo_root \notin Roots(items)
           /\ new_repo_default_selected # None) =>
             /\ items'[n].selection_mode = "Manual"
             /\ items'[n].selected = new_repo_default_selected[1]
    /\ MainKey("Space") =>
          /\ Len(items') = Len(items)
          /\ \A k, n \in 1..Len(items) :
                (items'[k] # items[k] /\ items'[n] # items[n]) => k = n
          /\ \A k \in 1..Len(items) :
                items'[k] # items[k] =>
                   /\ cursor # None
                   /\ IndexOfRow(items, cursor[1]) = k
                   /\ items'[k] = [items[k] EXCEPT !.selected = ~@,
                                                   !.selection_mode = "Manual"]
C22_SelectAll == [][C22_Step]_vars
\* After select-all a repository was discovered: two items are selected in
\* Manual mode, one of them hidden and one of them not stale.
C22_Witness ==
    /\ new_repo_default_selected = Some(TRUE)
    /\ Len(items) = 2
    /\ \A k \in 1..2 : items[k].selection_mode = "Manual" /\ items[k].selected
    /\ \E k \in 1..2 : ~is_visible(items[k].report)
    /\ \E k \in 1..2 : ~StaleReport(items[k].report)
\* One item was toggled: it is in Manual mode, the other in Auto mode, and
\* no default is set.
C22_WitnessToggle ==
    /\ new_repo_default_selected = None
    /\ Len(items) = 2
    /\ \E k, n \in 1..2 :
          /\ items[k].selection_mode = "Manual"
          /\ items[n].selection_mode = "Auto"

\* The orders the list is said to have.  a goes before b by time when the
\* timestamp of a is the earlier one; TimeFirst says which side an absent
\* timestamp takes: "absent" puts it before every present one, "present"
\* after.
TimeOrder(first, a, b) ==
    LET ta == a.report.newest_mtime
        tb == b.report.newest_mtime
    IN  IF ta # None /\ tb # None
        THEN (IF ta[1] < tb[1] THEN -1 ELSE IF ta[1] > tb[1] THEN 1 ELSE 0)
        ELSE IF ta = tb THEN 0
        ELSE IF (ta = None) = (first = "absent") THEN -1 ELSE 1
RootOrder(a, b) == PathCmp(a.report.repo_root, b.report.repo_root)
AgeOrdered(first, its) ==
    \A i, j \in 1..Len(its) :
        i < j =>
            \/ TimeOrder(first, its[i], its[j]) = -1
            \/ /\ TimeOrder(first, its[i], its[j]) = 0
               /\ RootOrder(its[i], its[j]) = -1
SizeOrdered(first, its) ==
    \A i, j \in 1..Len(its) :
        i < j =>
            \/ its[i].report.total_size_bytes > its[j].report.total_size_bytes
            \/ /\ its[i].report.total_size_bytes = its[j].report.total_size_bytes
               /\ \/ TimeOrder(first, its[i], its[j]) = -1
                  \/ /\ TimeOrder(first, its[i], its[j]) = 0
                     /\ RootOrder(its[i], its[j]) = -1

\* C23: in sort-by-age mode the list is in ascending order of newest_mtime,
\* an absent timestamp before every present one, ties broken by the root
\* path.  cmp_time_key orders a present timestamp before an absent one, so
\* the statement fails in the state C23_Witness describes.
C23_AbsentFirst == sort_mode = "Age" => AgeOrdered("absent", items)
\* In sort-by-age mode, all scan events consumed, the repository with a
\* timestamp is listed before the one without, as the code orders them.
C23_Witness ==
    /\ sort_mode = "Age"
    /\ spc = "finished"
    /\ chan = <<>>
    /\ Len(items) = 2
    /\ items[1].report.newest_mtime # None
    /\ items[2].report.newest_mtime = None
    /\ AgeOrdered("present", items)

ArtifactResorts ==
    /\ ApplyScanEvent
    /\ Head(chan).type = "Artifact"
    /\ LET record == Head(chan).record
           k == IndexOfRoot(items, record.repo_root)
       IN  /\ k # 0
           /\ \A i \in 1..Len(items[k].report.artifacts) :
                 items[k].report.artifacts[i].path # record.path
           /\ sort_key_for_report(sort_mode, items[k].report)
                 # sort_key_for_report(sort_mode,
                                       ItemWithArtifact(items[k], record).report)
\* The cursor designates a repository and designates it after the step too.
CursorKept ==
    selected_repo_root(items, cursor) # None =>
        selected_repo_root(items', cursor') = selected_repo_root(items, cursor)

\* C25: when an Artifact event adds a record to a listed repository and the
\* sort key of the item changes, the cursor designates after the step the
\* repository it designated before, also when the step makes a repository
\* newly visible.  sort_keep_cursor reads the repository under the cursor
\* after the item is updated: when the update makes visible an item listed
\* before the row of the cursor, the row shows another repository by then,
\* and the statement fails in the step out of the state C25_Witness
\* describes.
C25_CursorFollows == [][ArtifactResorts => CursorKept]_vars
\* Repository c is listed first and hidden, the cursor is on repository b in
\* row 0, and the Artifact event to consume next makes c visible and changes
\* its sort key.
C25_Witness ==
    /\ fpc = "drain"
    /\ ~exited
    /\ Len(items) = 2
    /\ items[1].report.repo_root = <<"c">>
    /\ ~is_visible(items[1].report)
    /\ is_visible(items[2].report)
    /\ cursor = Some(0)
    /\ chan # <<>>
    /\ Head(chan).type = "Artifact"
    /\ Head(chan).record.repo_root = <<"c">>
    /\ is_visible(ItemWithArtifact(items[1], Head(chan).record).report)
    /\ sort_key_for_report(sort_mode, items[1].report)
          # sort_key_for_report(sort_mode,
                ItemWithArtifact(items[1], Head(chan).record).report)

\* C26: Tab flips the sort mode and changes nothing but the order of the
\* list: the items are the same, flags and modes included, so the visible
\* ones are the same; the default of the session, the pending heads, the
\* scan statistics and the screen are unchanged; and the cursor designates
\* after the step the repository it designated before.
C26_Step ==
    MainKey("Tab") =>
        /\ sort_mode' # sort_mode
        /\ Len(items') = Len(items)
        /\ {items'[i] : i \in 1..Len(items')} = {items[i] : i \in 1..Len(items)}
        /\ {VisibleItems(items')[r] : r \in 1..visible_len(items')}
              = {VisibleItems(items)[r] : r \in 1..visible_len(items)}
        /\ CursorKept
        /\ selected_repo_root(items, cursor) = None =>
              selected_repo_root(items', cursor') = None
        /\ UNCHANGED <<new_repo_default_selected, pending_heads, statVars,
                       screen, result_lines>>
C26_SortToggle == [][C26_Step]_vars
\* Tab was pressed: in sort-by-size mode two visible repositories are in an
\* order the sort by age would not give them, the cursor on the second.
C26_Witness ==
    /\ sort_mode = "Size"
    /\ fpc = "drain"
    /\ Len(items) = 2
    /\ visible_len(items) = 2
    /\ ~AgeOrdered("present", items)
    /\ cursor = Some(1)

\* The file and directory entries of the directories in `ds`, as DirStats.
WalkEntries(ds) ==
    UNION {{<<d, 0, DirStats(0, walk_dirs[d].mtime)>>}
             \cup {<<d, k, walk_dirs[d].files[k]>> : k \in 1..Len(walk_dirs[d].files)} :
           d \in ds}
\* The DirStats of a set of entries taken as a whole: the sum of the sizes
\* held at the largest u64, the latest of the timestamps.
RECURSIVE SumOfSizes(_)
SumOfSizes(entries) ==
    IF entries = {} THEN 0
    ELSE LET e == CHOOSE x \in entries : TRUE
         IN  e[3].size_bytes + SumOfSizes(entries \ {e})
WholeStats(entries) ==
    LET times == {e[3].newest_mtime[1] :
                     e \in {x \in entries : x[3].newest_mtime # None}}
    IN  DirStats(Min(SumOfSizes(entries), MaxU64),
                 IF times = {} THEN None
                 ELSE Some(CHOOSE t \in times : \A u \in times : u <= t))
\* The DirStats values at hand: the shared one, the local one of each
\* directory, and each file's.
StatValues ==
    {walk_global}
    \cup {LocalStats(walk_dirs[d]) : d \in DOMAIN walk_dirs}
    \cup UNION {{walk_dirs[d].files[k] : k \in 1..Len(walk_dirs[d].files)} :
                d \in DOMAIN walk_dirs}

\* C27: merge is commutative and associative, the DirStats of no size and no
\* timestamp being its identity, and whatever the split of the files into
\* directories and the order in which the directories merge, the shared
\* DirStats is the DirStats of the entries merged so far, the root's own
\* timestamp among them, taken as a whole.
C27_MergeOrderFree ==
    /\ \A a, b \in StatValues : merge(a, b) = merge(b, a)
    /\ \A a, b, c \in StatValues : merge(merge(a, b), c) = merge(a, merge(b, c))
    /\ \A a \in StatValues : merge(a, DirStats(0, None)) = a
    /\ walk_dirs # <<>> =>
          walk_global = WholeStats(WalkEntries(DOMAIN walk_dirs \ walk_todo)
                                     \cup {<<1, 0, DirStats(0, walk_dirs[1].mtime)>>})
\* Three directories have merged, only the second with a timestamp of its
\* own, the latest of all, and the sizes of their files pass the largest u64.
C27_Witness ==
    /\ Len(walk_dirs) = 3
    /\ walk_todo = {}
    /\ walk_global = DirStats(MaxU64, Some(3))
    /\ walk_dirs[3].mtime = None
    /\ walk_dirs[1].mtime = None
    /\ SumOfSizes(WalkEntries({1, 2, 3})) > MaxU64

\* C28: when the run has ended with a startup error (invalid root, no
\* artifact directory name, terminal initialization), no scan worker was
\* spawned and none has sent an event.  run calls spawn_scan_worker before
\* TerminalGuard::enter, so the statement fails in the state C28_Witness
\* describes.
C28_NoWorkerOnStartupError ==
    fpc \in StartErrors => spc = "unspawned" /\ chan = <<>>
\* The terminal failed to initialize after the scan worker was spawned, had
\* searched the tree and had sent events.
C28_Witness ==
    /\ fpc = "failed to initialize terminal"
    /\ spc = "each"
    /\ Len(candidates) = 2
    /\ Len(chan) > 1

\* A RepoHead event of the repository is still to come: a task holds the
\* lookup, or the event is in the channel.
HeadToCome(root) ==
    \/ \E i \in DOMAIN scan_todo :
          /\ scan_todo[i].at = "send"
          /\ scan_todo[i].should_spawn_head
          /\ scan_todo[i].record[1].repo_root = root
    \/ \E i \in 1..Len(chan) :
          /\ chan[i].app = "Scan"
          /\ chan[i].type = "RepoHead"
          /\ chan[i].repo_root = root

\* C29: whatever the order in which the RepoHead event and the Artifact
\* events of a repository are consumed, no pending head is kept for a
\* repository that has an item; an item whose RepoHead event is consumed has
\* head_loaded set and the head of the event, an item whose event is still
\* to come has neither; a head consumed before the first artifact waits in
\* pending_heads, one consumed after is written into the item.
C29_Inv ==
    /\ \A k \in 1..Len(items) :
          LET root == items[k].report.repo_root
          IN  /\ root \notin DOMAIN pending_heads
              /\ IF HeadToCome(root)
                 THEN ~items[k].head_loaded /\ items[k].report.head = None
                 ELSE items[k].head_loaded /\ items[k].report.head = git_head(root)
    /\ \A root \in DOMAIN pending_heads :
          ~HeadToCome(root) /\ pending_heads[root] = git_head(root)
C29_Step ==
    (ApplyScanEvent /\ Head(chan).type = "RepoHead") =>
        LET root == Head(chan).repo_root
        IN  IF root \in Roots(items)
            THEN /\ pending_heads' = pending_heads
                 /\ items'[IndexOfRoot(items, root)].head_loaded
                 /\ items'[IndexOfRoot(items, root)].report.head = Head(chan).head
            ELSE /\ items' = items
                 /\ root \in DOMAIN pending_heads'
                 /\ pending_heads'[root] = Head(chan).head
C29_HeadReachesItem == [](C29_Inv) /\ [][C29_Step]_vars
\* All events are consumed: the repository with two artifacts has its head.
C29_Witness ==
    /\ spc = "finished"
    /\ chan = <<>>
    /\ Len(items) = 1
    /\ Len(items[1].report.artifacts) = 2
    /\ items[1].head_loaded
    /\ items[1].report.head = Some("commit")
    /\ pending_heads = <<>>
\* The head was consumed before the first artifact of the repository and
\* waits; the artifact of the other task comes first.
C29_WitnessBefore ==
    /\ <<"c">> \in DOMAIN pending_heads
    /\ items = <<>>
    /\ chan # <<>>
    /\ Head(chan).type = "Artifact"
    /\ \E i \in DOMAIN scan_todo :
          /\ scan_todo[i].at = "send"
          /\ scan_todo[i].record # None
          /\ ~scan_todo[i].should_spawn_head
          /\ scan_todo[i].record[1].path # Head(chan).record.path
\* The item exists and the head is the next event to consume.
C29_WitnessAfter ==
    /\ Len(items) = 1
    /\ ~items[1].head_loaded
    /\ chan # <<>>
    /\ Head(chan).type = "RepoHead"
    /\ Head(chan).repo_root = items[1].report.repo_root

\* The RepoHead events of the repository: those a task has still to send,
\* those in the channel, and the one consumed (it waits in pending_heads or
\* is loaded into the item).
HeadsHeld(root) ==
    Cardinality({i \in DOMAIN scan_todo :
                    /\ scan_todo[i].at = "send"
                    /\ scan_todo[i].should_spawn_head
                    /\ scan_todo[i].record[1].repo_root = root})
HeadsSent(root) ==
    Cardinality({i \in 1..Len(chan) :
                    /\ chan[i].app = "Scan"
                    /\ chan[i].type = "RepoHead"
                    /\ chan[i].repo_root = root})
HeadsConsumed(root) ==
    IF \/ root \in DOMAIN pending_heads
       \/ \E k \in 1..Len(items) :
             items[k].report.repo_root = root /\ items[k].head_loaded
    THEN 1 ELSE 0
\* The roots of the records the tasks have produced.
RecordRoots ==
    {r.repo_root : r \in ListedRecords \cup SentRecords}
    \cup {scan_todo[i].record[1].repo_root :
             i \in {j \in DOMAIN scan_todo :
                      scan_todo[j].at = "send" /\ scan_todo[j].record # None}}
\* Every root the scan can name.
ScanRoots ==
    {find_git_root(fs, candidates[i])[1] :
        i \in {j \in 1..Len(candidates) : find_git_root(fs, candidates[j]) # None}}

\* C30: whatever the order of the tasks, the head lookup is taken for the
\* roots of the records produced and for no other root, one RepoHead event
\* exists for each of them (held by a task, in the channel, or consumed) and
\* none for another root, a consumed RepoHead event is the first consumed for
\* its root, and when the scan has finished no task holds one: the event of
\* every root with a record was sent, once.
C30_Inv ==
    /\ head_started = RecordRoots
    /\ \A root \in ScanRoots \cup DOMAIN pending_heads \cup Roots(items) :
          HeadsHeld(root) + HeadsSent(root) + HeadsConsumed(root)
             = IF root \in head_started THEN 1 ELSE 0
    /\ spc = "finished" => \A root \in head_started : HeadsHeld(root) = 0
C30_Step ==
    /\ (ApplyScanEvent /\ Head(chan).type = "RepoHead") =>
          HeadsConsumed(Head(chan).repo_root) = 0
    /\ \A root \in ScanRoots :
          HeadsSent(root)' > HeadsSent(root) =>
             /\ HeadsSent(root)' = HeadsSent(root) + 1
             /\ HeadsHeld(root) = 1
             /\ HeadsHeld(root)' = 0
C30_OneHeadPerRoot == [](C30_Inv) /\ [][C30_Step]_vars
\* The scan has finished with two records of one repository and one of its
\* RepoHead events in the channel.
C30_Witness ==
    /\ spc = "finished"
    /\ Cardinality(SentRecords) = 2
    /\ \A r \in SentRecords : r.repo_root = <<"c">>
    /\ HeadsSent(<<"c">>) = 1
    /\ items = <<>>
\* The scan has finished over two repositories, git calling the artifact of
\* only one of them ignored: that one has its RepoHead event, the other none.
C30_WitnessTwoRoots ==
    /\ spc = "finished"
    /\ Cardinality(ScanRoots) = 2
    /\ Cardinality(head_started) = 1
    /\ \E root \in head_started : HeadsSent(root) = 1
    /\ \E root \in ScanRoots \ head_started : HeadsSent(root) = 0

\* The scan events waiting in the channel, in order.
ScanEvents(ch) == SelectSeq(ch, LAMBDA ev : ev.app = "Scan")
\* The number of Finished events of the scan sent so far: waiting or consumed.
FinishedCount ==
    Len(SelectSeq(ScanEvents(chan), LAMBDA ev : ev.type = "Finished"))
       + (IF scan_done THEN 1 ELSE 0)

\* C31: before the scan worker has sent CandidatesTotal it has sent nothing;
\* the first event it sends is CandidatesTotal with the number of candidates;
\* it sends Finished once, when it ends, as its last event, and with
\* candidates found the event before Finished is CandidateProcessed with
\* that number, also when the scan was cancelled; once Finished is consumed
\* scan_processed is scan_total.
C31_Inv ==
    /\ spc = "start" =>
          /\ ScanEvents(chan) = <<>>
          /\ scan_total = None
          /\ ~scan_done
    /\ FinishedCount = IF spc = "finished" THEN 1 ELSE 0
    /\ \A i \in 1..Len(ScanEvents(chan)) :
          ScanEvents(chan)[i].type = "Finished" => i = Len(ScanEvents(chan))
    /\ scan_done => scan_total # None /\ scan_processed = scan_total[1]
C31_Step ==
    LET before == ScanEvents(chan)
        after == ScanEvents(chan')
    IN  /\ (spc = "start" /\ spc' # "start") =>
              /\ after # <<>>
              /\ after[1] = ScanCandidatesTotal(Len(candidates'))
        /\ spc = "finished" =>
              /\ spc' = "finished"
              /\ after = before \/ after = Tail(before)
        /\ (spc = "each" /\ spc' = "finished") =>
              /\ Len(after) >= 2
              /\ after[Len(after)] = ScanFinished
              /\ after[Len(after) - 1] = ScanCandidateProcessed(Len(candidates))
C31_EventStream == [](C31_Inv) /\ [][C31_Step]_vars
\* The scan was cancelled with a candidate not processed, it has finished
\* and Finished is consumed: both candidates count as processed.
C31_Witness ==
    /\ scan_cancel
    /\ ~exited
    /\ spc = "finished"
    /\ scan_count < Len(candidates)
    /\ scan_done
    /\ scan_total = Some(2)
    /\ scan_processed = 2

\* C32: with the cancel flag set, a task that has not started yet can only
\* return: it never reaches the ignore check, the size aggregation or the
\* head lookup, its return sends no event and counts nothing.  (A task that
\* read the flag before it was set goes on: C32_Witness.)
C32_Step ==
    scan_cancel =>
        \A i \in DOMAIN scan_todo :
            scan_todo[i] = TaskNew =>
                \/ i \in DOMAIN scan_todo' /\ scan_todo'[i] = TaskNew
                \/ /\ i \notin DOMAIN scan_todo'
                   /\ chan' = chan
                   /\ scan_count' = scan_count
                   /\ head_started' = head_started
C32_CancelledTaskDoesNothing == [][C32_Step]_vars
\* Every task has returned, one of them on the cancel flag: fewer are
\* counted than there are candidates, and the worker has yet to finish.
C32_Witness ==
    /\ scan_cancel
    /\ ~exited
    /\ spc = "each"
    /\ DOMAIN scan_todo = {}
    /\ scan_count < Len(candidates)
\* An Artifact sent after the deletion worker's first event, hence after the
\* flag was set, by a task that had passed the check.
C32_LateSend ==
    /\ scan_cancel
    /\ ~exited
    /\ \E i, j \in 1..Len(chan) :
          /\ i < j
          /\ chan[i].app = "Clean"
          /\ chan[j].app = "Scan"
          /\ chan[j].type = "Artifact"

\* The Finished events among those the deletion worker has sent.
FinishedOfWorker == {i \in 1..Len(sent) : sent[i].type = "Finished"}

\* C33: a started deletion worker eventually sends Finished, cancelled or
\* not; it sends Finished once, after every Progress event; and the Cleaning
\* screen is eventually left for the Result screen.
C33_Inv ==
    /\ Cardinality(FinishedOfWorker) = IF wpc = "finished" THEN 1 ELSE 0
    /\ \A i \in FinishedOfWorker : i = Len(sent)
    /\ wpc = "finished" => Len(sent) = last_processed + 1
C33_WorkerFinishes ==
    /\ [](C33_Inv)
    /\ (wpc = "loop") ~> (wpc = "finished")
    /\ (screen.kind = "Cleaning") ~> (screen.kind = "Result")
\* A cancelled worker has sent Finished after a Progress event, with a
\* target left, and the Result screen is shown.
C33_Witness ==
    /\ clean_cancel
    /\ wpc = "finished"
    /\ Len(sent) = 2
    /\ sent[1].type = "Progress"
    /\ Len(targets) = 3
    /\ sent[2].canceled
    /\ screen.kind = "Result"

\* The records of the item of root r in the list its, as a set.
RecordsOf(its, r) ==
    UNION {{its[k].report.artifacts[i] : i \in 1..Len(its[k].report.artifacts)} :
              k \in {n \in 1..Len(its) : its[n].report.repo_root = r}}
\* The reports of the list its, as a set.
ReportsOf(its) == {its[k].report : k \in 1..Len(its)}

\* C34: the list holds one item per repository root and a report holds no
\* path twice; an Artifact event for a root without an item adds an item
\* whose report holds that record alone; one for a listed root with a new
\* path adds the record to the report of that root and adds no item; one
\* whose path the report holds leaves every report as it is; and no step
\* takes an item or a record away.
C34_Inv ==
    /\ \A k, n \in 1..Len(items) :
          items[k].report.repo_root = items[n].report.repo_root => k = n
    /\ \A k \in 1..Len(items) :
          \A i, j \in 1..Len(items[k].report.artifacts) :
             items[k].report.artifacts[i].path = items[k].report.artifacts[j].path
                => i = j
C34_Step ==
    /\ Roots(items) \subseteq Roots(items')
    /\ \A r \in Roots(items) : RecordsOf(items, r) \subseteq RecordsOf(items', r)
    /\ (ApplyScanEvent /\ Head(chan).type = "Artifact") =>
          LET record == Head(chan).record
              root == record.repo_root
          IN  IF root \notin Roots(items)
              THEN /\ Len(items') = Len(items) + 1
                   /\ ReportsOf(items') \ ReportsOf(items) =
                         {[repo_root |-> root,
                           head |-> IF root \in DOMAIN pending_heads
                                    THEN pending_heads[root] ELSE None,
                           artifacts |-> <<record>>,
                           total_size_bytes |-> record.stats.size_bytes,
                           newest_mtime |-> record.stats.newest_mtime]}
              ELSE IF record.path \in {a.path : a \in RecordsOf(items, root)}
              THEN ReportsOf(items') = ReportsOf(items)
              ELSE /\ Len(items') = Len(items)
                   /\ RecordsOf(items', root) = RecordsOf(items, root) \cup {record}
                   /\ \A r \in Roots(items) \ {root} :
                         RecordsOf(items', r) = RecordsOf(items, r)
    /\ ~(ApplyScanEvent /\ Head(chan).type = "Artifact") =>
          /\ Roots(items') = Roots(items)
          /\ \A r \in Roots(items) : RecordsOf(items', r) = RecordsOf(items, r)
C34_OneItemPerRoot == [](C34_Inv) /\ [][C34_Step]_vars
\* Repository a is listed with both its artifacts and a third Artifact event
\* that named one of them again is consumed.
C34_Witness ==
    /\ Len(items) = 1
    /\ items[1].report.repo_root = <<"a">>
    /\ Len(items[1].report.artifacts) = 2
    /\ artifacts_found = 3

\* The aggregation done by one thread: the directories merged one after the
\* other, the root first.
SequentialStats ==
    LET seq[k \in 0..Len(walk_dirs)] ==
            IF k = 0 THEN DirStats(0, walk_dirs[1].mtime)
            ELSE merge(seq[k - 1], LocalStats(walk_dirs[k]))
    IN  seq[Len(walk_dirs)]

\* C35: when every task of dir_stats has merged, whatever their order, the
\* shared DirStats is what one thread merging the directories in turn gets:
\* the sum of the lengths of the regular files of the subtree, held at the
\* largest u64, no symbolic link counted, and the latest of the timestamps
\* of its files and directories; each step merges the local DirStats of one
\* directory not merged yet, so each is merged once.
C35_Inv ==
    (walk_dirs # <<>> /\ walk_todo = {}) =>
        /\ walk_global = SequentialStats
        /\ walk_global = WholeStats(WalkEntries(DOMAIN walk_dirs))
C35_Step ==
    \E d \in walk_todo :
        /\ walk_todo' = walk_todo \ {d}
        /\ walk_global' = merge(walk_global, LocalStats(walk_dirs[d]))
C35_SameAsSequential == [](C35_Inv) /\ [][C35_Step]_vars
\* Three directories have merged, one of them holding a symbolic link, and
\* the result is below the largest u64 with the timestamp of a file.
C35_Witness ==
    /\ Len(walk_dirs) = 3
    /\ walk_todo = {}
    /\ \E d \in DOMAIN walk_dirs : walk_dirs[d].links # <<>>
    /\ \A d \in DOMAIN walk_dirs : walk_dirs[d].mtime = None
    /\ walk_global.size_bytes < MaxU64
    /\ walk_global.newest_mtime = Some(2)

\* The directories between the scan root and the path p, both left out.
Between(p) == {SubSeq(p, 1, k) : k \in 1..(Len(p) - 1)}
\* Every directory between the root and p is entered by the discovery: it
\* has no configured name, is not named .git, is no symbolic link and can
\* be read.
ReachedPlainly(p) ==
    \A q \in Between(p) :
        /\ q[Len(q)] \notin artifact_dir_names
        /\ q[Len(q)] # ".git"
        /\ q \notin SymlinkPaths
        /\ q \notin UnreadablePaths
\* The directories (no symbolic links) of a configured name reached so.
NamedAndReached ==
    {p \in fs : /\ p[Len(p)] \in artifact_dir_names
                /\ p \notin SymlinkPaths
                /\ ReachedPlainly(p)}
CandidateSet == {candidates[i] : i \in 1..Len(candidates)}
Discovered == spc # "start"

\* C36 as stated: the candidates are the directories of a configured name
\* reached through directories that are entered.
C36_AsStated ==
    Discovered => CandidateSet = NamedAndReached
\* C36: the candidates are in ascending order, none twice; they are the
\* directories of a configured name, other than those named .git, reached
\* through directories that have no configured name, are not named .git,
\* are no symbolic links and can be read; and none lies in another.
C36_Discovery ==
    Discovered =>
        /\ \A i, j \in 1..Len(candidates) :
              i < j => PathCmp(candidates[i], candidates[j]) = -1
        /\ CandidateSet = {p \in NamedAndReached : p[Len(p)] # ".git"}
        /\ \A p, q \in CandidateSet : IsPrefix(p, q) => p = q
\* Every path is there and target and node_modules are configured: the
\* artifacts at the root, in the repository and in the plain directory are
\* found, no other.
C36_Witness ==
    /\ Discovered
    /\ fs = DiscoverPaths
    /\ artifact_dir_names = {"node_modules", "target"}
    /\ candidates = <<(<<"a", "b", "node_modules">>), (<<"a", "target">>),
                      (<<"target">>)>>

\* C37: from the CandidatesTotal event on, scan_processed is at most
\* scan_total, and no step before Finished is consumed makes it smaller.
C37_Step ==
    (scan_total # None /\ ~scan_done) => scan_processed' >= scan_processed
C37_ProgressMonotone ==
    /\ [](scan_total # None => scan_processed <= scan_total[1])
    /\ [][C37_Step]_vars
\* scan_processed is never above scan_total.
C37_AtMostTotal == scan_total # None => scan_processed <= scan_total[1]
\* Every task has ended and every event sent is consumed, the last one the
\* CandidateProcessed of the task that counted 64: the one of the task that
\* counted 65 was sent and consumed before it.
C37_Witness ==
    /\ spc = "each"
    /\ DOMAIN scan_todo = {}
    /\ chan = <<>>
    /\ scan_total = Some(65)
    /\ scan_processed = 64

\* C38: in every state, hence after every event consumed and every key
\* handled and before the next draw, the cursor is unset when no repository
\* is visible and is otherwise the index of a visible row.
C38_CursorValid ==
    IF visible_len(items) = 0
    THEN cursor = None
    ELSE /\ cursor # None
         /\ cursor[1] >= 0
         /\ cursor[1] < visible_len(items)
\* A key has just moved the cursor to the last of two visible rows.
C38_Witness ==
    /\ Len(items) = 2
    /\ visible_len(items) = 2
    /\ cursor = Some(1)
    /\ fpc = "drain"
    /\ chan = <<>>
\* An Artifact event is consumed and its repository is not visible: the
\* list has an item and the cursor is unset.
C38_WitnessHidden ==
    /\ Len(items) = 1
    /\ visible_len(items) = 0
    /\ cursor = None

\* C39: a scan event consumed in the Confirm, Cleaning or Result screen
\* leaves the screen, and with it the targets Confirm carries, and the
\* targets of the worker as they are; the targets of Confirm are the plan
\* computed when Enter was pressed and stay so, y hands them to the worker,
\* and the worker's targets never change after; a Progress event applied to
\* a screen other than Cleaning gives that screen back.
C39_Step ==
    /\ (ApplyScanEvent /\ screen.kind \in {"Confirm", "Cleaning", "Result"}) =>
          /\ screen' = screen
          /\ targets' = targets
    /\ (screen.kind = "Main" /\ screen'.kind = "Confirm") =>
          screen'.targets = plan_delete_targets(VisiblePairs(items))
    /\ (screen.kind = "Confirm" /\ screen'.kind = "Confirm") =>
          screen'.targets = screen.targets
    /\ (screen.kind = "Confirm" /\ screen'.kind = "Cleaning") =>
          targets' = screen.targets
    /\ wpc # "idle" => targets' = targets
C39_Inv ==
    \A i \in 1..Len(sent) :
        (sent[i].type = "Progress" /\ screen.kind # "Cleaning") =>
            ApplyProgress(screen, sent[i]) = screen
C39_PlanIsEnters == [](C39_Inv) /\ [][C39_Step]_vars
\* The Cleaning screen is shown and a scan event consumed since Enter has
\* changed the list: planned now, the targets would be others than the
\* worker's.
C39_Witness ==
    /\ screen.kind = "Cleaning"
    /\ targets # plan_delete_targets(VisiblePairs(items))
\* The Result screen is shown after a Progress event was sent.
C39_WitnessResult ==
    /\ screen.kind = "Result"
    /\ \E i \in 1..Len(sent) : sent[i].type = "Progress"

\* The removals that failed, other than on a directory not found, among the
\* first n targets.
RemovalFailures(n) ==
    Cardinality({j \in 1..Len(calls) :
                    /\ calls[j].op = "remove_dir_all"
                    /\ calls[j].answer = "error"
                    /\ calls[j].index <= n})
\* The counters processed, deleted, skipped and errors are consistent.
CountersConsistent(processed, total, deleted, skipped, errors) ==
    /\ deleted + skipped <= processed
    /\ processed <= total
    /\ errors <= processed
    /\ ~options.dry_run => processed - deleted - skipped = RemovalFailures(processed)
SnapshotsSent == {i \in 1..Len(sent) : sent[i].type = "Progress"}

\* C40: every progress snapshot sent, the summary at every point and the
\* summary sent with Finished have deleted_paths + skipped_paths <= processed
\* <= total and error_count <= processed, and outside dry-run processed less
\* the deleted and the skipped is the number of removals that failed up to
\* there; from one snapshot to the next and to the final summary none of
\* processed, deleted_paths, skipped_paths and error_count decreases.
C40_Counters ==
    /\ \A i \in SnapshotsSent :
          LET p == sent[i].progress
          IN  CountersConsistent(p.processed, p.total, p.deleted_paths,
                                 p.skipped_paths, p.error_count)
    /\ \A i, j \in SnapshotsSent :
          i < j => /\ sent[i].progress.processed <= sent[j].progress.processed
                   /\ sent[i].progress.deleted_paths <= sent[j].progress.deleted_paths
                   /\ sent[i].progress.skipped_paths <= sent[j].progress.skipped_paths
                   /\ sent[i].progress.error_count <= sent[j].progress.error_count
    /\ CountersConsistent(last_processed, summary.planned_paths,
                          summary.deleted_paths, summary.skipped_paths,
                          Len(summary.errors))
    /\ \A i \in 1..Len(sent) :
          sent[i].type = "Finished" =>
             /\ sent[i].summary = summary
             /\ \A j \in SnapshotsSent :
                   /\ sent[j].progress.processed <= last_processed
                   /\ sent[j].progress.deleted_paths <= summary.deleted_paths
                   /\ sent[j].progress.skipped_paths <= summary.skipped_paths
                   /\ sent[j].progress.error_count <= Len(summary.errors)
\* Outside dry-run the worker has finished three targets: one removed, one
\* not found, one whose removal failed.
C40_Witness ==
    /\ ~options.dry_run
    /\ wpc = "finished"
    /\ last_processed = 3
    /\ summary.deleted_paths = 1
    /\ summary.skipped_paths = 1
    /\ Len(summary.errors) = 1
    /\ RemovalFailures(3) = 1
    /\ \E j \in 1..Len(calls) : calls[j].answer = "not_found"

====
